---- MODULE Spec2Model ----
(***************************************************************************)
(* ArchAdvisor orchestration core: the LangGraph workflow of one session   *)
(* (backend/app/graph), the background task that stores its outcome and    *)
(* the cancel endpoint (backend/app/api/sessions.py), the session store    *)
(* (backend/app/services/session_manager.py), the event bus with its       *)
(* listeners and the observers' WebSocket handlers                         *)
(* (backend/app/services/event_bus.py, backend/app/api/websocket.py), the  *)
(* rate limiter at ingress (backend/app/services/rate_limiter.py) and the  *)
(* validation report (backend/app/validators/models.py).                   *)
(*                                                                         *)
(* Python Optional values are sequences of length at most one: None is     *)
(* <<>> and a present value x is <<x>>.  Timestamps are readings of a      *)
(* logical clock.  A JSON document in the store is the record it encodes:  *)
(* every stored field is a string, a number, None or a list of those, for  *)
(* which json.loads(json.dumps(x, default=str)) = x.                       *)
(***************************************************************************)
EXTENDS Integers, Sequences, FiniteSets, TLC

\* ------------------------------------------------------------------ bounds
\* number of findings a non-empty validator report or review carries
MaxFindings == 1
\* events the workflow task publishes while observers come and go
MaxWorkflowEvents == 2
\* publishes on a session nobody observes (more than the buffer holds)
MaxPublishes == 102
\* create-session requests reaching the limiter
MaxCalls == 12
\* steps of the wall clock, each half a token's refill time
MaxTicks == 2
\* errors in the list a report is built from
MaxErrors == 6
\* runs of BaseAgent.run followed one after another
MaxRuns == 2
\* devil's-advocate responses reviewed and routed one after another
MaxReviews == 2
\* create calls made on the session store
MaxCreates == 102
\* messages appended to one stored record
MaxMessages == 2
\* steps of the backing store's clock, each half a session's TTL
MaxStoreTicks == 3
\* messages the clients send on their WebSocket connections
MaxClientMessages == 1
\* findings in the output of one run of a stage
MaxStageFindings == 6
\* runs of the finding-publishing stages followed one after another
MaxStageRuns == 2

\* ------------------------------------------------------- program constants
\* SessionPreferences.max_debate_rounds = Field(default=3, ge=1, le=5)
MinDebateRounds == 1
MaxDebateRounds == 5
\* should_route_after_validation: max_validation_rounds = 2
max_validation_rounds == 2
\* session_manager.py: SESSION_TTL = 86400
SESSION_TTL == 86400
\* EventBus._max_history
max_history == 100
\* validator_node: report.errors[:8]
ValidatorFindingEvents == 8
\* devils_advocate_review_node: findings[:5]
ReviewFindingEvents == 5
\* settings.RATE_LIMIT_MAX_SESSIONS
max_tokens == 10
\* settings.RATE_LIMIT_WINDOW_SECONDS
refill_seconds == 3600

None == <<>>
Some(x) == <<x>>
Min(a, b) == IF a < b THEN a ELSE b

VARIABLES
    record,      \* the session's document in the backing store (Optional)
    events,      \* event_bus._event_history[session_id]
    wfpc,        \* position of the background workflow task
    node,        \* next graph node to run while wfpc = "graph"
    gs,          \* the graph's state (merged node outputs)
    final,       \* state returned by run_architecture_workflow (Optional)
    wsnap,       \* store_output: the document read by update()
    trace,       \* nodes started so far, in order
    verdicts,    \* validator verdicts so far, in order
    reviews,     \* devil's-advocate reviews so far, in order
    cpc,         \* position of the cancel request in flight
    csnap,       \* cancel_session: the document read by update()
    cresp,       \* HTTP status of the last finished cancel request (0: none)
    observed,    \* status last served to an observer
    now,         \* logical clock read by datetime.utcnow()
    listeners,   \* event_bus._listeners[session_id]
    pub,         \* per publishing task: its publish() call in flight
    npub,        \* per publishing task: publish() calls begun so far
    calls,       \* publish() calls that have ended, in order
    conn,        \* per observer: its WebSocket connection and handler
    snapshot,    \* list last returned by get_history (Optional)
    buckets,     \* rate_limiter._buckets: per key, Optional bucket
    clock,       \* time.time(), in seconds
    grants,      \* per key: the times at which allow_request returned True
    ncalls,      \* create-session requests handled so far
    response,    \* outcome of the last create-session request (Optional)
    sessions,    \* ids of the session records in the backing store
    recent,      \* the recency list of the backing store
    tasks,       \* ids of the sessions whose background task was scheduled
    all_errors,  \* ValidationEngine.validate: the findings collected so far
    built,       \* the ValidationReport built from them (Optional)
    vpos,        \* ValidationEngine.validate: index of the validator to run next
    ran,         \* what each validator run so far did, in order
    arun,        \* BaseAgent.run in progress: agent, position, attempts so far
    finished,    \* the runs of BaseAgent.run that ended, in order
    routed,      \* per devil's-advocate response: its shape and what came of it
    creating,    \* per caller: the await its SessionManager.create call is at
    listed,      \* the last answer of SessionManager.list_recent (Optional)
    store,       \* the backing store: per session id, its record (Optional)
    scall,       \* the SessionManager call in flight: operation, id, position
    sresult,     \* how the last SessionManager call that ended did so (Optional)
    deadline,    \* the backing store: per session id, when its key expires (Optional)
    wall,        \* the backing store's clock, in seconds
    inbox        \* the client messages the WebSocket handlers received, in order

busVars == <<listeners, pub, npub, calls, conn, snapshot>>
limVars == <<buckets, clock, grants, ncalls, response, sessions, recent, tasks>>
repVars == <<all_errors, built>>
chainVars == <<vpos, ran>>
agentVars == <<arun, finished>>
routeVars == <<routed>>
listVars == <<creating, listed>>
storeVars == <<store, scall, sresult, deadline, wall>>
sockVars == <<inbox>>

vars == <<record, events, wfpc, node, gs, final, wsnap, trace, verdicts,
          reviews, cpc, csnap, cresp, observed, now, busVars, limVars, repVars,
          chainVars, agentVars, routeVars, listVars, storeVars, sockVars>>

wfVars  == <<wfpc, node, gs, final, wsnap, trace, verdicts, reviews>>
canVars == <<cpc, csnap, cresp>>
\* what the session's workflow, cancel and status requests leave alone
extVars == <<busVars, limVars, repVars, chainVars, agentVars, routeVars, listVars,
            storeVars, sockVars>>
obsVars == <<observed, extVars>>
\* the session itself, left alone by the bus-level and ingress-level actions
sessVars == <<record, wfVars, canVars, observed, now>>
\* what the actions of the event bus, of ingress and of the validation
\* engine leave alone
offSock    == <<sessVars, limVars, repVars, chainVars, agentVars, routeVars, listVars,
                storeVars>>
offBus     == <<offSock, sockVars>>
offIngress == <<sessVars, events, busVars, repVars, chainVars, agentVars, routeVars, listVars,
                storeVars, sockVars>>
offChain   == <<sessVars, events, busVars, limVars, agentVars, routeVars, listVars,
                storeVars, sockVars>>
offAgent   == <<sessVars, busVars, limVars, repVars, chainVars, routeVars, listVars,
                storeVars, sockVars>>
offRoute   == <<sessVars, events, busVars, limVars, repVars, chainVars, agentVars, listVars,
                storeVars, sockVars>>
\* what the calls on the recency list leave alone
offList    == <<sessVars, events, busVars, repVars, chainVars, agentVars, routeVars,
                buckets, clock, grants, ncalls, response, tasks, storeVars, sockVars>>
\* what the calls on the stored records leave alone
offStore   == <<sessVars, events, busVars, repVars, chainVars, agentVars, routeVars,
                listVars, buckets, clock, grants, ncalls, response, sessions, tasks,
                sockVars>>
offEngine  == <<offChain, chainVars>>

TerminalStatuses == {"complete", "error", "cancelled"}

\* --------------------------------------------------------------- event bus
\* BaseEvent.model_dump(): type and timestamp always present.  origin is the
\* publishing code (not part of the payload).
Ev(type, origin) == [type |-> type, origin |-> origin, timestamp |-> TRUE]

\* devils_advocate_review_node: next_action announced for a recommendation
next_action(recommendation) ==
    IF recommendation = "proceed" THEN "proceed_to_costing" ELSE "revise"

\* DebateRoundCompletedEvent(..., next_action=next_action).model_dump()
DebateRoundCompletedEvent(recommendation) ==
    [type |-> "debate_round_completed", origin |-> "devils_advocate_review",
     timestamp |-> TRUE, next_action |-> next_action(recommendation)]

\* an error event without the message and the recoverable flag
ErrorEvent_bare(origin) == Ev("error", origin)

\* ErrorEvent(message=..., recoverable=False).model_dump()
ErrorEvent(origin) ==
    [type |-> "error", origin |-> origin, timestamp |-> TRUE,
     message |-> TRUE, recoverable |-> FALSE]

\* the dict literal published by cancel_session
CancelledEvent ==
    [type |-> "session_cancelled", origin |-> "cancel_session", timestamp |-> FALSE,
     message |-> TRUE]

\* EventBus.publish: append, then keep the last max_history entries
publish(history, event) ==
    LET h == Append(history, event)
    IN  IF Len(h) > max_history
        THEN SubSeq(h, Len(h) - max_history + 1, Len(h))
        ELSE h

RECURSIVE publish_all(_, _)
publish_all(history, evs) ==
    IF evs = <<>> THEN history
    ELSE publish_all(publish(history, Head(evs)), Tail(evs))

Repeat(e, n) == [i \in 1..n |-> e]

\* validator_node: for error in report.errors[:8]: publish FindingDiscoveredEvent
validator_finding_events(n) ==
    Repeat(Ev("finding_discovered", "validator"), Min(n, ValidatorFindingEvents))

\* devils_advocate_review_node: for finding in findings[:5]: publish ...
review_finding_events(n) ==
    Repeat(Ev("finding_discovered", "devils_advocate_review"),
           Min(n, ReviewFindingEvents))

\* ------------------------------------------------------------------ agents
\* BaseAgent.run: agent_started, agent_thinking, then either agent_completed
\* or, when _call_llm / parse_response raised, an error event and a re-raise.
AgentRunEvents(origin, ok) ==
    << Ev("agent_started", origin), Ev("agent_thinking", origin),
       IF ok THEN Ev("agent_completed", origin) ELSE ErrorEvent(origin) >>

\* ------------------------------------------------------------ graph state
create_initial_state(max_rounds, t) ==
    [ status            |-> "initializing",
      current_design    |-> None,
      review_findings   |-> None,
      rendered_markdown |-> None,
      messages          |-> <<>>,
      validation_report |-> None,
      validation_passed |-> None,
      validation_round  |-> 0,
      debate_round      |-> 0,
      max_debate_rounds |-> max_rounds,
      errors            |-> <<>>,
      started_at        |-> t,
      completed_at      |-> None ]

\* inputs: validator reports.  A report with no error has score 100 and
\* passes, so a failing report carries at least one finding.
Reports ==
    { [passed |-> TRUE,  nerrors |-> 0],
      [passed |-> TRUE,  nerrors |-> MaxFindings],
      [passed |-> FALSE, nerrors |-> MaxFindings] }

\* inputs: devil's-advocate outputs (severity_summary.critical,
\* proceed_recommendation, number of findings)
Reviews ==
    { [critical |-> c, recommendation |-> r, nfindings |-> c * MaxFindings]
        : c \in {0, 1}, r \in {"proceed", "revise_critical"} }

\* ------------------------------------------------------------------ routing
\* the cap compared with > instead of >=
should_route_after_validation_late(state) ==
    IF state.validation_passed = Some(TRUE) THEN "pass_to_da"
    ELSE IF state.validation_round > max_validation_rounds THEN "force_proceed"
    ELSE "revise"

should_route_after_validation(state) ==
    IF state.validation_passed = Some(TRUE) THEN "pass_to_da"
    ELSE IF state.validation_round >= max_validation_rounds THEN "force_proceed"
    ELSE "revise"

\* the "revise" edge wired to the devil's advocate
ValidationEdges_revise_to_da(decision) ==
    CASE decision = "pass_to_da"    -> "devils_advocate_review"
      [] decision = "revise"        -> "devils_advocate_review"
      [] decision = "force_proceed" -> "devils_advocate_review"

ValidationEdges(decision) ==
    CASE decision = "pass_to_da"    -> "devils_advocate_review"
      [] decision = "revise"        -> "architect_revise_validation"
      [] decision = "force_proceed" -> "devils_advocate_review"

\* the hard limit compared with > instead of >=
should_continue_debate_past_cap(state) ==
    IF state.debate_round > state.max_debate_rounds THEN "proceed"
    ELSE LET findings == Head(state.review_findings)
         IN  IF findings.critical = 0 \/ findings.recommendation = "proceed"
             THEN "proceed"
             ELSE "revise"

\* proceed only when there is no critical AND the reviewer says proceed
should_continue_debate_both(state) ==
    IF state.debate_round >= state.max_debate_rounds THEN "proceed"
    ELSE LET findings == Head(state.review_findings)
         IN  IF findings.critical = 0 /\ findings.recommendation = "proceed"
             THEN "proceed"
             ELSE "revise"

should_continue_debate(state) ==
    IF state.debate_round >= state.max_debate_rounds THEN "proceed"
    ELSE LET findings == Head(state.review_findings)
         IN  IF findings.critical = 0 \/ findings.recommendation = "proceed"
             THEN "proceed"
             ELSE "revise"

DebateEdges(decision) ==
    CASE decision = "revise"  -> "architect_revise"
      [] decision = "proceed" -> "cost_analysis"

\* ------------------------------------------------------------ session store
\* SessionManager.update: dict.update(updates) on the document that was read
merge(current, updates) ==
    [f \in DOMAIN current |-> IF f \in DOMAIN updates THEN updates[f] ELSE current[f]]

\* store_output without the completed_at field
store_output_updates_no_stamp(state) ==
    [ status            |-> state.status,
      current_design    |-> state.current_design,
      review_findings   |-> state.review_findings,
      rendered_markdown |-> state.rendered_markdown,
      messages          |-> state.messages,
      debate_round      |-> state.debate_round ]

\* SessionManager.store_output: the fields promoted from the returned state
store_output_updates(state) ==
    [ status            |-> state.status,
      current_design    |-> state.current_design,
      review_findings   |-> state.review_findings,
      rendered_markdown |-> state.rendered_markdown,
      messages          |-> state.messages,
      debate_round      |-> state.debate_round,
      completed_at      |-> state.completed_at ]

\* the cancel patch without the completed_at stamp
cancel_updates_no_stamp(t) ==
    [ status |-> "cancelled" ]

\* cancel_session: the patch handed to update()
cancel_updates(t) ==
    [ status |-> "cancelled", completed_at |-> Some(t) ]

\* ----------------------------------------------------------------- ingress
\* create_session: store the initial state, schedule the background task
\* (run_architecture_workflow builds its own initial state).  Admission by
\* the rate limiter precedes this and is not part of this session's state.
CreateSession(max_rounds) ==
    /\ wfpc = "none"
    /\ record = None
    /\ record' = Some(create_initial_state(max_rounds, now))
    /\ gs' = create_initial_state(max_rounds, now)
    /\ now' = now + 1
    /\ wfpc' = "graph"
    /\ node' = "retrieve_context"
    /\ UNCHANGED <<events, final, wsnap, trace, verdicts, reviews>>
    /\ UNCHANGED canVars
    /\ UNCHANGED obsVars

\* ------------------------------------------------------------- graph nodes
AtNode(n) == wfpc = "graph" /\ node = n

\* one entry of trace: the node, the counters it started with, and whether
\* it returned, raised out of an agent adapter, or raised by itself
Stage(n, outcome) ==
    [ node |-> n, validation_round |-> gs.validation_round,
      debate_round |-> gs.debate_round, outcome |-> outcome ]

\* a node returned: merge its output and follow the edge to nxt
Goto(n, nxt, state) ==
    /\ trace' = Append(trace, Stage(n, "returned"))
    /\ gs' = state
    /\ node' = nxt
    /\ wfpc' = IF nxt = "END" THEN "finish" ELSE "graph"

\* a node raised: ainvoke propagates into run_architecture_workflow's except
Raise(n, outcome) ==
    /\ trace' = Append(trace, Stage(n, outcome))
    /\ wfpc' = "except"
    /\ UNCHANGED <<gs, node>>

NodeFrame == UNCHANGED <<record, final, wsnap, now>> /\ UNCHANGED canVars /\ UNCHANGED obsVars

retrieve_context_node ==
    /\ AtNode("retrieve_context")
    /\ events' = publish(events, Ev("workflow_progress", "retrieve_context"))
    /\ Goto("retrieve_context", "architect_design", [gs EXCEPT !.status = "designing"])
    /\ UNCHANGED <<verdicts, reviews>>
    /\ NodeFrame

architect_design_node ==
    /\ AtNode("architect_design")
    /\ \E ok \in BOOLEAN :
        /\ events' = publish_all(events,
                        <<Ev("workflow_progress", "architect_design")>>
                        \o AgentRunEvents("architect_design", ok))
        /\ IF ok
           THEN Goto("architect_design", "validator",
                     [gs EXCEPT !.current_design = Some(1),
                                !.debate_round = 1,
                                !.status = "reviewing",
                                !.messages = Append(@, "architect")])
           ELSE Raise("architect_design", "adapter_fault")
    /\ UNCHANGED <<verdicts, reviews>>
    /\ NodeFrame

\* validator_node followed by the conditional edge out of "validator"
validator_node ==
    /\ AtNode("validator")
    /\ \E report \in Reports :
        LET out == [gs EXCEPT !.validation_report = Some(report),
                              !.validation_passed = Some(report.passed),
                              !.messages = Append(@, "validator"),
                              !.status = IF report.passed THEN "reviewing" ELSE "revising"]
            decision == should_route_after_validation(out)
        IN  /\ events' = publish_all(events,
                            <<Ev("agent_started", "validator")>>
                            \o validator_finding_events(report.nerrors)
                            \o <<Ev("agent_completed", "validator")>>)
            /\ verdicts' = Append(verdicts, report.passed)
            /\ Goto("validator", ValidationEdges(decision), out)
    /\ UNCHANGED reviews
    /\ NodeFrame

architect_revise_from_validation_node ==
    /\ AtNode("architect_revise_validation")
    /\ \E ok \in BOOLEAN :
        /\ events' = publish_all(events,
                        <<Ev("workflow_progress", "architect_revise_validation")>>
                        \o AgentRunEvents("architect_revise_validation", ok))
        /\ IF ok
           THEN Goto("architect_revise_validation", "validator",
                     [gs EXCEPT !.current_design = Some(Head(@) + 1),
                                !.validation_round = @ + 1,
                                !.status = "validating",
                                !.messages = Append(@, "architect")])
           ELSE Raise("architect_revise_validation", "adapter_fault")
    /\ UNCHANGED <<verdicts, reviews>>
    /\ NodeFrame

\* devils_advocate_review_node followed by the conditional edge out of it
devils_advocate_review_node ==
    /\ AtNode("devils_advocate_review")
    /\ \E ok \in BOOLEAN, review \in Reviews :
        IF ok
        THEN LET out == [gs EXCEPT !.review_findings = Some(review),
                                   !.status = "revising",
                                   !.messages = Append(@, "devils_advocate")]
                 decision == should_continue_debate(out)
             IN  /\ events' = publish_all(events,
                                <<Ev("debate_round_started", "devils_advocate_review")>>
                                \o AgentRunEvents("devils_advocate_review", TRUE)
                                \o review_finding_events(review.nfindings)
                                \o <<DebateRoundCompletedEvent(review.recommendation)>>)
                 /\ reviews' = Append(reviews, review)
                 /\ Goto("devils_advocate_review", DebateEdges(decision), out)
        ELSE /\ review = CHOOSE r \in Reviews : TRUE
             /\ events' = publish_all(events,
                                <<Ev("debate_round_started", "devils_advocate_review")>>
                                \o AgentRunEvents("devils_advocate_review", FALSE))
             /\ Raise("devils_advocate_review", "adapter_fault")
             /\ UNCHANGED reviews
    /\ UNCHANGED verdicts
    /\ NodeFrame

architect_revise_node ==
    /\ AtNode("architect_revise")
    /\ \E ok \in BOOLEAN :
        /\ events' = publish_all(events,
                        <<Ev("workflow_progress", "architect_revise")>>
                        \o AgentRunEvents("architect_revise", ok))
        /\ IF ok
           THEN Goto("architect_revise", "devils_advocate_review",
                     [gs EXCEPT !.current_design = Some(Head(@) + 1),
                                !.debate_round = @ + 1,
                                !.status = "reviewing",
                                !.messages = Append(@, "architect")])
           ELSE Raise("architect_revise", "adapter_fault")
    /\ UNCHANGED <<verdicts, reviews>>
    /\ NodeFrame

\* cost_analysis_node publishes its progress event and then evaluates
\* datetime.utcnow(); nodes.py binds no global named datetime (the only
\* import of it is local to generate_docs_node), so the call raises NameError.
cost_analysis_node ==
    /\ AtNode("cost_analysis")
    /\ events' = publish(events, Ev("workflow_progress", "cost_analysis"))
    /\ Raise("cost_analysis", "raised")
    /\ UNCHANGED <<verdicts, reviews>>
    /\ NodeFrame

\* generate_docs_node and the edge to END.  No run of the graph arrives here
\* (cost_analysis raises), so the step is not among the steps of Next.
generate_docs_node ==
    /\ AtNode("generate_docs")
    /\ \E ok \in BOOLEAN :
        /\ events' = publish_all(events,
                        <<Ev("workflow_progress", "generate_docs")>>
                        \o AgentRunEvents("generate_docs", ok))
        /\ IF ok
           THEN /\ Goto("generate_docs", "END",
                        [gs EXCEPT !.rendered_markdown = Some("markdown"),
                                   !.status = "complete",
                                   !.completed_at = Some(now),
                                   !.messages = Append(@, "documentation")])
                /\ now' = now + 1
           ELSE /\ Raise("generate_docs", "adapter_fault")
                /\ now' = now
    /\ UNCHANGED <<verdicts, reviews>>
    /\ UNCHANGED <<record, final, wsnap>> /\ UNCHANGED canVars /\ UNCHANGED obsVars

\* ------------------------------------------------- run_architecture_workflow
\* an except branch that returns the error state without publishing
workflow_failed_silent ==
    /\ wfpc = "except"
    /\ events' = events
    /\ final' = Some([create_initial_state(gs.max_debate_rounds, gs.started_at)
                        EXCEPT !.status = "error",
                               !.errors = Append(@, "exception"),
                               !.completed_at = Some(now)])
    /\ now' = now + 1
    /\ wfpc' = "store_get"
    /\ UNCHANGED <<record, node, gs, wsnap, trace, verdicts, reviews>>
    /\ UNCHANGED canVars
    /\ UNCHANGED obsVars

\* except branch: publish the error event, return the *initial* state with
\* status error and completed_at stamped; run_workflow_background then calls
\* store_output.
workflow_failed ==
    /\ wfpc = "except"
    /\ events' = publish(events, ErrorEvent("run_architecture_workflow"))
    /\ final' = Some([create_initial_state(gs.max_debate_rounds, gs.started_at)
                        EXCEPT !.status = "error",
                               !.errors = Append(@, "exception"),
                               !.completed_at = Some(now)])
    /\ now' = now + 1
    /\ wfpc' = "store_get"
    /\ UNCHANGED <<record, node, gs, wsnap, trace, verdicts, reviews>>
    /\ UNCHANGED canVars
    /\ UNCHANGED obsVars

\* try branch after ainvoke returned: publish session_complete, return the
\* final state (reached only from generate_docs, see above)
workflow_completed ==
    /\ wfpc = "finish"
    /\ events' = publish(events, Ev("session_complete", "run_architecture_workflow"))
    /\ final' = Some(gs)
    /\ wfpc' = "store_get"
    /\ UNCHANGED <<record, node, gs, wsnap, trace, verdicts, reviews, now>>
    /\ UNCHANGED canVars
    /\ UNCHANGED obsVars

\* store_output -> update: current = await self.get(session_id)
store_output_get ==
    /\ wfpc = "store_get"
    /\ wsnap' = record
    /\ wfpc' = IF record = None THEN "crashed" ELSE "store_set"
    /\ UNCHANGED <<record, events, node, gs, final, trace, verdicts, reviews, now>>
    /\ UNCHANGED canVars
    /\ UNCHANGED obsVars

\* store_output -> update: current.update(updates); setex
store_output_set ==
    /\ wfpc = "store_set"
    /\ record' = Some(merge(Head(wsnap), store_output_updates(Head(final))))
    /\ wfpc' = "done"
    /\ UNCHANGED <<events, node, gs, final, wsnap, trace, verdicts, reviews, now>>
    /\ UNCHANGED canVars
    /\ UNCHANGED obsVars

\* store_output: the backing store faults at one of update's two awaits; the
\* exception reaches run_workflow_background's except branch, which calls
\* update_status(session_id, "error")
store_output_fault ==
    /\ wfpc \in {"store_get", "store_set"}
    /\ wfpc' = "status_get"
    /\ UNCHANGED <<record, events, node, gs, final, wsnap, trace, verdicts, reviews, now>>
    /\ UNCHANGED canVars
    /\ UNCHANGED obsVars

\* update_status -> update: current = await self.get(session_id)
update_status_get ==
    /\ wfpc = "status_get"
    /\ wsnap' = record
    /\ wfpc' = IF record = None THEN "crashed" ELSE "status_set"
    /\ UNCHANGED <<record, events, node, gs, final, trace, verdicts, reviews, now>>
    /\ UNCHANGED canVars
    /\ UNCHANGED obsVars

\* update_status -> update: current.update({"status": "error"}); setex
update_status_set ==
    /\ wfpc = "status_set"
    /\ record' = Some(merge(Head(wsnap), [status |-> "error"]))
    /\ wfpc' = "handled"
    /\ UNCHANGED <<events, node, gs, final, wsnap, trace, verdicts, reviews, now>>
    /\ UNCHANGED canVars
    /\ UNCHANGED obsVars

\* update_status: the backing store faults again; the exception leaves the
\* background task
update_status_fault ==
    /\ wfpc \in {"status_get", "status_set"}
    /\ wfpc' = "crashed"
    /\ UNCHANGED <<record, events, node, gs, final, wsnap, trace, verdicts, reviews, now>>
    /\ UNCHANGED canVars
    /\ UNCHANGED obsVars

\* ------------------------------------------------------------ cancel_session
\* session = await get(); 404 if absent; 409 if terminal
cancel_check ==
    /\ cpc = "idle"
    /\ IF record = None
       THEN cresp' = 404 /\ cpc' = "idle"
       ELSE IF Head(record).status \in TerminalStatuses
       THEN cresp' = 409 /\ cpc' = "idle"
       ELSE cresp' = 0 /\ cpc' = "update_get"
    /\ UNCHANGED <<record, events, csnap, now>>
    /\ UNCHANGED wfVars
    /\ UNCHANGED obsVars

\* update: current = await self.get(session_id)
cancel_update_get ==
    /\ cpc = "update_get"
    /\ csnap' = record
    /\ IF record = None
       THEN cresp' = 500 /\ cpc' = "idle"
       ELSE cresp' = cresp /\ cpc' = "update_set"
    /\ UNCHANGED <<record, events, now>>
    /\ UNCHANGED wfVars
    /\ UNCHANGED obsVars

\* update: current.update(updates); setex
cancel_update_set ==
    /\ cpc = "update_set"
    /\ record' = Some(merge(Head(csnap), cancel_updates(now)))
    /\ now' = now + 1
    /\ cpc' = "publish"
    /\ UNCHANGED <<events, csnap, cresp>>
    /\ UNCHANGED wfVars
    /\ UNCHANGED obsVars

\* event_bus.publish(session_cancelled); return 200
cancel_publish ==
    /\ cpc = "publish"
    /\ events' = publish(events, CancelledEvent)
    /\ cresp' = 200
    /\ cpc' = "idle"
    /\ UNCHANGED <<record, csnap, now>>
    /\ UNCHANGED wfVars
    /\ UNCHANGED obsVars

\* --------------------------------------------------------- observer reads
\* get_session_status: 404 or the stored status
get_session_status ==
    /\ observed' = IF record = None THEN "404" ELSE Head(record).status
    /\ UNCHANGED <<record, events, now>>
    /\ UNCHANGED wfVars
    /\ UNCHANGED canVars
    /\ UNCHANGED extVars

\* ------------------------------------------------- event bus: the listeners
\* the two tasks that publish on one session: the background workflow task
\* (through create_callback) and a cancel request (cancel_session)
Tasks == {"workflow", "cancel"}
\* WebSocket connections to the session; the listener of a connection is the
\* ws_listener closure of its handler, named after the connection
Observers == {"o1", "o2"}

\* the first events a workflow run publishes
WorkflowStream ==
    << Ev("workflow_progress", "retrieve_context"),
       Ev("workflow_progress", "architect_design") >>
    \o AgentRunEvents("architect_design", TRUE)
    \o << Ev("workflow_progress", "validator") >>

\* the k-th event of a long run; seq stands for its distinct payload
Numbered(k) ==
    [type |-> "workflow_progress", origin |-> "run_architecture_workflow",
     timestamp |-> TRUE, seq |-> k]

\* no publish() call of the task is in flight
IdleCall ==
    [ pc |-> "idle", event |-> None, used |-> 0, began |-> {},
      visited |-> {}, dead |-> {}, stale |-> FALSE ]

\* a connection nobody has opened yet
NoConn == [pc |-> "none", alive |-> FALSE, frames |-> <<>>]

\* _send_json: one text frame on the connection
Frame(type, evs) == [type |-> type, events |-> evs]

\* get_history handing out the buffer's own list
get_history_alias(history) == [alias |-> TRUE, value |-> history]

\* EventBus.get_history: list(...) builds a new list object
get_history(history) == [alias |-> FALSE, value |-> history]

\* what publish() does to a list handed out earlier: a list that is the
\* buffer's own object sees the append, until the buffer is rebound to the
\* slice of its last max_history entries
aliased(snap, event) ==
    IF snap = None \/ ~Head(snap).list.alias THEN snap
    ELSE LET v == Append(Head(snap).list.value, event)
         IN  Some([Head(snap) EXCEPT !.list =
                      [alias |-> Len(v) <= max_history, value |-> v]])

\* a coroutine is between two of its suspension points: on the one event
\* loop nothing else runs until it suspends or ends
Running == \E p \in Tasks : pub[p].pc = "running"
Quiet == ~Running

\* EventBus.subscribe
subscribe(l) == listeners' = listeners \cup {l}

\* a handler that ends without unsubscribing
unsubscribe_never(l) ==
    /\ listeners' = listeners
    /\ pub' = pub

\* EventBus.unsubscribe: discard, and drop the session's key when the set is
\* empty; a publish() still iterating the dropped set object finds it
\* emptied for good (a later subscribe makes a new set)
unsubscribe(l) ==
    /\ listeners' = listeners \ {l}
    /\ pub' = [p \in Tasks |->
                IF listeners \ {l} = {} /\ pub[p].pc # "idle"
                THEN [pub[p] EXCEPT !.stale = TRUE]
                ELSE pub[p]]

\* EventBus.publish up to its first listener: append to the buffer, then
\* start iterating the session's listener set itself (no copy is taken)
publish_begin(p, event) ==
    /\ Quiet
    /\ pub[p].pc = "idle"
    /\ events' = publish(events, event)
    /\ snapshot' = aliased(snapshot, event)
    /\ npub' = [npub EXCEPT ![p] = @ + 1]
    /\ pub' = [pub EXCEPT ![p] =
                [ pc |-> "running", event |-> Some(event),
                  used |-> Cardinality(listeners), began |-> listeners,
                  visited |-> {}, dead |-> {}, stale |-> FALSE ]]
    /\ UNCHANGED <<listeners, calls, conn>>
    /\ UNCHANGED offBus

\* EventBus.publish, one turn of "for listener in <the live set>": the set
\* iterator raises RuntimeError when the set's size differs from the size it
\* started with (outside the try, so publish raises); at the end of the set
\* the dead listeners are discarded; otherwise the next listener is awaited:
\* a send on a live connection hands the frame over and suspends, a send on
\* a connection the client has left raises and the loop goes on
publish_next(p) ==
    LET call  == pub[p]
        event == Head(call.event)
        rest  == listeners \ call.visited
        owed  == (call.began \cap listeners) \ call.visited
        intact == ~call.stale /\ Cardinality(listeners) = call.used
        ended(outcome) ==
            Append(calls, [ task |-> p, event |-> event, began |-> call.began,
                            visited |-> call.visited, dead |-> call.dead,
                            outcome |-> outcome ])
    IN  /\ call.pc = "running" \/ (call.pc = "suspended" /\ Quiet)
        /\ \/ /\ ~intact
              /\ pub' = [pub EXCEPT ![p] = IdleCall]
              /\ calls' = ended("raised")
              /\ UNCHANGED <<listeners, conn>>
           \/ /\ intact
              /\ owed = {}
              /\ listeners' = listeners \ call.dead
              /\ pub' = [pub EXCEPT ![p] = IdleCall]
              /\ calls' = ended("returned")
              /\ UNCHANGED conn
           \/ /\ intact
              /\ \E l \in rest :
                    IF conn[l].alive
                    THEN /\ conn' = [conn EXCEPT ![l].frames =
                                        Append(@, Frame("event", <<event>>))]
                         /\ pub' = [pub EXCEPT ![p].pc = "suspended",
                                               ![p].visited = @ \cup {l}]
                    ELSE /\ conn' = conn
                         /\ pub' = [pub EXCEPT ![p].pc = "running",
                                               ![p].visited = @ \cup {l},
                                               ![p].dead = @ \cup {l}]
              /\ UNCHANGED <<listeners, calls>>
        /\ UNCHANGED <<events, npub, snapshot>>
        /\ UNCHANGED offBus

\* the workflow task publishes its next event
workflow_publish ==
    /\ npub["workflow"] < Min(MaxWorkflowEvents, Len(WorkflowStream))
    /\ publish_begin("workflow", WorkflowStream[npub["workflow"] + 1])

\* cancel_session publishes the session_cancelled event
cancel_session_publish ==
    /\ npub["cancel"] = 0
    /\ publish_begin("cancel", CancelledEvent)

\* ------------------------------------------------ the WebSocket handler
\* a client opens the WebSocket: the handler starts and awaits accept()
ws_connect(o) ==
    /\ Quiet
    /\ conn[o].pc = "none"
    /\ conn' = [conn EXCEPT ![o] = [pc |-> "accepting", alive |-> TRUE, frames |-> <<>>]]
    /\ UNCHANGED <<events, listeners, pub, npub, calls, snapshot>>
    /\ UNCHANGED offBus

\* the client goes away; the handler learns of it at its next await
client_disconnect(o) ==
    /\ Quiet
    /\ conn[o].pc \in {"accepting", "open"}
    /\ conn[o].alive
    /\ conn' = [conn EXCEPT ![o].alive = FALSE]
    /\ UNCHANGED <<events, listeners, pub, npub, calls, snapshot>>
    /\ UNCHANGED offBus

\* session_websocket from accept() to its receive loop: subscribe, read the
\* history and, if there is any, send it as one event_history frame; a
\* failed accept ends the handler before it subscribed, a failed send takes
\* it through finally: unsubscribe
session_websocket_open(o) ==
    LET history == get_history(events).value
    IN  /\ Quiet
        /\ conn[o].pc = "accepting"
        /\ \/ /\ ~conn[o].alive
              /\ conn' = [conn EXCEPT ![o].pc = "closed"]
              /\ UNCHANGED <<listeners, pub>>
           \/ /\ history = <<>>
              /\ subscribe(o)
              /\ conn' = [conn EXCEPT ![o].pc = "open"]
              /\ UNCHANGED pub
           \/ /\ history # <<>>
              /\ conn[o].alive
              /\ subscribe(o)
              /\ conn' = [conn EXCEPT ![o].pc = "open",
                                      ![o].frames = <<Frame("event_history", history)>>]
              /\ UNCHANGED pub
           \/ /\ history # <<>>
              /\ ~conn[o].alive
              /\ unsubscribe(o)
              /\ conn' = [conn EXCEPT ![o].pc = "closed"]
        /\ UNCHANGED <<events, npub, calls, snapshot>>
        /\ UNCHANGED offBus

\* session_websocket: receive_text raises WebSocketDisconnect, the loop
\* breaks, finally: unsubscribe
session_websocket_close(o) ==
    /\ Quiet
    /\ conn[o].pc = "open"
    /\ ~conn[o].alive
    /\ unsubscribe(o)
    /\ conn' = [conn EXCEPT ![o].pc = "closed"]
    /\ UNCHANGED <<events, npub, calls, snapshot>>
    /\ UNCHANGED offBus

\* inputs: what a client sends on its connection
ClientMessages ==
    { "cancel", "force_proceed", "ping",   \* {"type": ...} of a known type
      "unknown_type",                      \* {"type": "hello"}
      "not_json",                          \* text json.loads rejects
      "not_object" }                       \* JSON that is no object: [1]

\* the frame the receive loop answers a message with, if it answers:
\* info for cancel and force_proceed, pong for ping, error for text that
\* raised json.JSONDecodeError, nothing for any other type
reply(message) ==
    CASE message \in {"cancel", "force_proceed"} -> Some(Frame("info", <<>>))
      [] message = "ping" -> Some(Frame("pong", <<>>))
      [] message = "not_json" -> Some(Frame("error", <<"Invalid JSON">>))
      [] OTHER -> None

\* session_websocket, one turn of the receive loop: receive_text returns
\* the client's text.  message.get on JSON that is no object raises
\* AttributeError, which neither except of the loop catches: the handler
\* leaves through finally: unsubscribe.  Every other message is answered or
\* passed over and the loop awaits the next one.
session_websocket_receive(o, message) ==
    /\ Quiet
    /\ conn[o].pc = "open"
    /\ conn[o].alive
    /\ Len(inbox) < MaxClientMessages
    /\ IF message = "not_object"
       THEN /\ unsubscribe(o)
            /\ conn' = [conn EXCEPT ![o].pc = "closed"]
       ELSE /\ conn' = [conn EXCEPT ![o].frames = @ \o reply(message)]
            /\ UNCHANGED <<listeners, pub>>
    /\ inbox' = Append(inbox, [observer |-> o, message |-> message,
                               reply |-> IF message = "not_object" THEN None
                                         ELSE reply(message)])
    /\ UNCHANGED <<events, npub, calls, snapshot>>
    /\ UNCHANGED offSock

\* ------------------------------------------- a session nobody observes
\* the workflow task publishes the next event of a long run
unobserved_publish ==
    /\ npub["workflow"] < MaxPublishes
    /\ publish_begin("workflow", Numbered(npub["workflow"] + 1))

\* a caller of get_history keeps the list it was given
get_history_call ==
    /\ Quiet
    /\ snapshot' = Some([list |-> get_history(events), at |-> npub["workflow"]])
    /\ UNCHANGED <<events, listeners, pub, npub, calls, conn>>
    /\ UNCHANGED offBus

\* ------------------------------------------------------------ rate limiter
\* client addresses (request.client.host)
Keys == {"ip1", "ip2"}

\* half the time in which one token is refilled
TickSeconds == refill_seconds \div (2 * max_tokens)

\* what the TokenBucketRateLimiter singleton offers to its callers
LimiterAttributes ==
    { "max_tokens", "refill_seconds", "_buckets",
      "allow_request", "remaining_tokens", "reset_time" }

\* _buckets[key]: the defaultdict makes a full bucket on first access
bucket_of(key) ==
    IF buckets[key] = None
    THEN [tokens |-> max_tokens, last_refill |-> clock]
    ELSE Head(buckets[key])

\* a limiter that stamps the bucket at every call
allow_request_stamped(bucket, t) ==
    LET elapsed       == t - bucket.last_refill
        tokens_to_add == (elapsed * max_tokens) \div refill_seconds
        refilled      == [ tokens      |-> Min(max_tokens, bucket.tokens + tokens_to_add),
                           last_refill |-> t ]
    IN  IF refilled.tokens > 0
        THEN [allowed |-> TRUE,  bucket |-> [refilled EXCEPT !.tokens = @ - 1]]
        ELSE [allowed |-> FALSE, bucket |-> refilled]

\* TokenBucketRateLimiter.allow_request: refill by elapsed time (int()
\* truncates), then consume one token if there is any
allow_request(bucket, t) ==
    LET elapsed       == t - bucket.last_refill
        tokens_to_add == (elapsed * max_tokens) \div refill_seconds
        refilled      == IF tokens_to_add > 0
                         THEN [ tokens      |-> Min(max_tokens, bucket.tokens + tokens_to_add),
                                last_refill |-> t ]
                         ELSE bucket
    IN  IF refilled.tokens > 0
        THEN [allowed |-> TRUE,  bucket |-> [refilled EXCEPT !.tokens = @ - 1]]
        ELSE [allowed |-> FALSE, bucket |-> refilled]

\* TokenBucketRateLimiter.remaining_tokens
remaining_tokens(key) ==
    IF buckets[key] = None THEN max_tokens ELSE Head(buckets[key]).tokens

\* TokenBucketRateLimiter.reset_time, as the int() the handler takes of it
reset_time(bs, key, t) ==
    IF bs[key] = None THEN 0
    ELSE LET left == refill_seconds \div max_tokens - (t - Head(bs[key]).last_refill)
         IN  IF left > 0 THEN left ELSE 0

\* the handler going on whatever the limiter answered
admitted_open(allowed) == TRUE

\* create_session: "if not rate_limiter.allow_request(client_ip): raise"
admitted(allowed) == allowed

\* create_session on a denied request: rate_limiter.remaining and
\* rate_limiter.max_requests are looked up before the HTTPException(429) is
\* built; an attribute the limiter does not have raises AttributeError,
\* which the catch-all handler of main.py answers with 500
denial(bs, key, t) ==
    IF {"remaining", "max_requests", "reset_time"} \subseteq LimiterAttributes
    THEN [ status |-> 429, remaining |-> Some(Head(bs[key]).tokens),
           retry_after_seconds |-> Some(reset_time(bs, key, t)) ]
    ELSE [ status |-> 500, remaining |-> None, retry_after_seconds |-> None ]

\* redis lpush then ltrim 0..99 on the recency list
lpush_ltrim(list, id) ==
    LET l == <<id>> \o list
    IN  IF Len(l) > 100 THEN SubSeq(l, 1, 100) ELSE l

\* POST /sessions from one client address: the limiter is asked first; a
\* request it admits gets a session record, a recency-list entry and a
\* background task and is answered 202
create_session(key) ==
    LET res == allow_request(bucket_of(key), clock)
        bs  == [buckets EXCEPT ![key] = Some(res.bucket)]
        id  == Cardinality(sessions) + 1
    IN  /\ ncalls < MaxCalls
        /\ ncalls' = ncalls + 1
        /\ buckets' = bs
        /\ grants' = IF res.allowed THEN [grants EXCEPT ![key] = Append(@, clock)] ELSE grants
        /\ IF admitted(res.allowed)
           THEN /\ sessions' = sessions \cup {id}
                /\ recent' = lpush_ltrim(recent, id)
                /\ tasks' = tasks \cup {id}
                /\ response' = Some([ key |-> key, allowed |-> res.allowed, status |-> 202,
                                      remaining |-> None, retry_after_seconds |-> None,
                                      session |-> Some(id) ])
           ELSE /\ response' = Some([ key |-> key, allowed |-> res.allowed,
                                      status |-> denial(bs, key, clock).status,
                                      remaining |-> denial(bs, key, clock).remaining,
                                      retry_after_seconds |-> denial(bs, key, clock).retry_after_seconds,
                                      session |-> None ])
                /\ UNCHANGED <<sessions, recent, tasks>>
        /\ UNCHANGED clock
        /\ UNCHANGED offIngress

\* the wall clock moves on
tick ==
    /\ clock < MaxTicks * TickSeconds
    /\ clock' = clock + TickSeconds
    /\ UNCHANGED <<buckets, grants, ncalls, response, sessions, recent, tasks>>
    /\ UNCHANGED offIngress

\* ------------------------------------------------------- validation report
\* list(Severity), in the order of the enum
Severities == <<"critical", "high", "medium", "low">>

\* ERROR_CATEGORY_MAP.get(code, "operational")
ERROR_CATEGORY_MAP(code) ==
    CASE code \in { "SPOF_DATABASE", "SPOF_CACHE", "SPOF_GATEWAY", "SPOF_QUEUE",
                    "SPOF_GENERIC", "AVAIL_TARGET_UNREACHABLE",
                    "AVAIL_COMPOSITE_BELOW_TARGET", "AVAIL_NO_MULTI_AZ",
                    "AVAIL_NO_REPLICATION", "AVAIL_SINGLE_REGION_HIGH_SLA",
                    "MISSING_DR", "SCHEMA_MISSING_FIELD", "SCHEMA_INVALID_TYPE",
                    "SCHEMA_INVALID_VALUE", "SCHEMA_EMPTY_COMPONENTS" } -> "reliability"
      [] code \in { "CAP_THROUGHPUT_EXCEEDS_BENCHMARK", "CAP_NO_AUTOSCALING",
                    "CAP_SINGLE_NODE_HIGH_RPS", "CAP_NO_SHARDING", "CAP_HOTSPOT_RISK",
                    "CAP_NO_SCALING_STRATEGY", "MISSING_CACHING" } -> "scalability"
      [] code \in { "CONSIST_EVENTUAL_NO_JUSTIFICATION",
                    "CONSIST_STRONG_MULTI_REGION_LATENCY",
                    "CONSIST_STRONG_WITH_EVENTUAL_DB", "CONSIST_MISSING_STRATEGY",
                    "CONTRA_EVENT_DRIVEN_NO_BROKER", "CONTRA_STRONG_CONSIST_EVENTUAL_DB",
                    "CONTRA_SERVERLESS_WITH_K8S", "CONTRA_LOW_LATENCY_MANY_HOPS",
                    "CONTRA_MULTI_REGION_SINGLE_DEPLOY", "CONTRA_STYLE_MISMATCH",
                    "CONTRA_STATELESS_WITH_LOCAL_STATE" } -> "consistency"
      [] code \in { "MISSING_AUTH", "MISSING_ENCRYPTION",
                    "MISSING_RATE_LIMITING" } -> "security"
      [] OTHER -> "operational"

\* PENALTY_WEIGHTS[severity][category]
PENALTY_WEIGHTS(severity, category) ==
    CASE severity = "critical" ->
            [ reliability |-> 15, scalability |-> 12, consistency |-> 8,
              security |-> 8, operational |-> 8 ][category]
      [] severity = "high" ->
            [ reliability |-> 8, scalability |-> 6, consistency |-> 5,
              security |-> 5, operational |-> 5 ][category]
      [] severity = "medium" ->
            [ reliability |-> 4, scalability |-> 3, consistency |-> 3,
              security |-> 3, operational |-> 3 ][category]
      [] severity = "low" ->
            [ reliability |-> 1, scalability |-> 1, consistency |-> 1,
              security |-> 1, operational |-> 1 ][category]

\* ScoreBreakdown(): every category at its maximum
ScoreBreakdown ==
    [ reliability |-> 30, scalability |-> 25, consistency |-> 15,
      security |-> 15, operational |-> 15 ]

\* ScoreBreakdown.total
total(b) ==
    LET sum == b.reliability + b.scalability + b.consistency + b.security + b.operational
    IN  IF sum > 0 THEN sum ELSE 0

\* the penalty taken off with no floor
clamp_none(current, penalty) == current - penalty

\* build: max(0, current - penalty)
clamp(current, penalty) ==
    IF current - penalty > 0 THEN current - penalty ELSE 0

\* the scoring loop of build: each error takes its penalty off its category,
\* never below 0
RECURSIVE penalise(_, _)
penalise(breakdown, errors) ==
    IF errors = <<>> THEN breakdown
    ELSE LET category == ERROR_CATEGORY_MAP(Head(errors).code)
             penalty  == PENALTY_WEIGHTS(Head(errors).severity, category)
             current  == breakdown[category]
         IN  penalise([breakdown EXCEPT ![category] = clamp(current, penalty)],
                      Tail(errors))

\* the counting loop of build
count_by_severity(errors) ==
    [ s \in {"critical", "high", "medium", "low"} |->
        Cardinality({i \in 1..Len(errors) : errors[i].severity = s}) ]

\* sorted(errors, key = index of the severity): stable
sorted_by_severity(errors) ==
    SelectSeq(errors, LAMBDA e : e.severity = Severities[1])
    \o SelectSeq(errors, LAMBDA e : e.severity = Severities[2])
    \o SelectSeq(errors, LAMBDA e : e.severity = Severities[3])
    \o SelectSeq(errors, LAMBDA e : e.severity = Severities[4])

\* the gate looking at the score only
pass_gate_score_only(summary, score) == score >= 60

\* build: passed = summary["critical"] == 0 and score >= 60
pass_gate(summary, score) == summary.critical = 0 /\ score >= 60

\* ValidationReport.build.  Every penalty is a whole number, so the score is
\* one too and round(score, 1) leaves it as it is.
build(errors) ==
    LET summary         == count_by_severity(errors)
        score_breakdown == penalise(ScoreBreakdown, errors)
        score           == total(score_breakdown)
        ok              == pass_gate(summary, score)
    IN  [ passed          |-> ok,
          score           |-> score,
          score_breakdown |-> score_breakdown,
          summary         |-> summary,
          errors          |-> sorted_by_severity(errors),
          verdict         |-> IF ok /\ score >= 80 THEN "PASS strong"
                              ELSE IF ok THEN "PASS acceptable"
                              ELSE IF summary.critical > 0 THEN "FAIL critical"
                              ELSE "FAIL below threshold" ]

\* inputs: the findings validators hand in (a code with a severity)
Findings ==
    { [code |-> "SPOF_DATABASE",        severity |-> "critical"],
      [code |-> "AVAIL_NO_REPLICATION", severity |-> "high"],
      [code |-> "CAP_NO_AUTOSCALING",   severity |-> "high"],
      [code |-> "SCHEMA_INVALID_TYPE",  severity |-> "medium"],
      [code |-> "MISSING_LOGGING",      severity |-> "low"] }

\* ValidationEngine.validate: a validator's finding joins all_errors
collect_error(e) ==
    /\ built = None
    /\ Len(all_errors) < MaxErrors
    /\ all_errors' = Append(all_errors, e)
    /\ UNCHANGED built
    /\ UNCHANGED offEngine

\* ValidationEngine.validate: report = ValidationReport.build(all_errors)
build_report ==
    /\ built = None
    /\ built' = Some(build(all_errors))
    /\ UNCHANGED all_errors
    /\ UNCHANGED offEngine

\* --------------------------------------------------------- validator chain
\* ValidationEngine._default_validators, in execution order
validators ==
    << "SchemaValidator", "AvailabilityValidator", "CapacityValidator",
       "ConsistencyValidator", "ContradictionValidator",
       "OperationalComplexityValidator", "MissingRequirementValidator",
       "DomainPatternValidator" >>

\* inputs: what a validator that returns hands back (no finding, or one)
Returned ==
    { <<>>, << [code |-> "SPOF_DATABASE", severity |-> "critical"] >> }

\* the finding recorded for a validator that raised
crashed == [code |-> "SCHEMA_INVALID_TYPE", severity |-> "medium"]

\* a raising validator leaving nothing behind
except_Exception_silent(errors) == errors

\* validate: except Exception: all_errors.append(ValidationError(...))
except_Exception(errors) == Append(errors, crashed)

\* validate, given a string that is not JSON: the report of one critical
\* schema finding is returned before any validator runs
validate_unparsable ==
    /\ built = None
    /\ vpos = 1
    /\ built' = Some(build(<< [code |-> "SCHEMA_INVALID_TYPE", severity |-> "critical"] >>))
    /\ UNCHANGED <<all_errors, chainVars>>
    /\ UNCHANGED offChain

\* validate, one turn of the loop: the validator returns its findings
validator_returns(errors) ==
    /\ built = None
    /\ vpos <= Len(validators)
    /\ all_errors' = all_errors \o errors
    /\ ran' = Append(ran, [validator |-> validators[vpos], raised |-> FALSE,
                            errors |-> errors])
    /\ vpos' = vpos + 1
    /\ UNCHANGED built
    /\ UNCHANGED offChain

\* validate, one turn of the loop: the validator raises
validator_raises ==
    /\ built = None
    /\ vpos <= Len(validators)
    /\ all_errors' = except_Exception(all_errors)
    /\ ran' = Append(ran, [validator |-> validators[vpos], raised |-> TRUE,
                            errors |-> <<>>])
    /\ vpos' = vpos + 1
    /\ UNCHANGED built
    /\ UNCHANGED offChain

\* validate, after the loop: report = ValidationReport.build(all_errors)
validate_build ==
    /\ built = None
    /\ vpos > Len(validators)
    /\ built' = Some(build(all_errors))
    /\ UNCHANGED <<all_errors, chainVars>>
    /\ UNCHANGED offChain

\* ------------------------------------------------------------ BaseAgent.run
\* @retry(stop=stop_after_attempt(3), ...)
stop_after_attempt == 3

\* the agents whose run is called
Agents == {"architect", "devils_advocate"}

IdleRun == [agent |-> "none", pc |-> "idle", attempts |-> <<>>]

\* run's except branch: publish the error event, re-raise
run_raises(attempts) ==
    /\ events' = publish(events, ErrorEvent(arun.agent))
    /\ finished' = Append(finished, [agent |-> arun.agent, attempts |-> attempts,
                                      result |-> "raised"])
    /\ arun' = IdleRun

\* run, up to the await of _call_llm: agent_started and agent_thinking
agent_run(a) ==
    /\ arun.pc = "idle"
    /\ Len(finished) < MaxRuns
    /\ arun' = [agent |-> a, pc |-> "calling", attempts |-> <<>>]
    /\ events' = publish_all(events, <<Ev("agent_started", a), Ev("agent_thinking", a)>>)
    /\ UNCHANGED finished
    /\ UNCHANGED offAgent

\* _call_llm: llm.ainvoke raises; tenacity calls again unless this was the
\* last attempt, in which case the exception reaches run's except branch
call_llm_raises ==
    /\ arun.pc = "calling"
    /\ LET attempts == Append(arun.attempts, "transport_error")
       IN  IF Len(attempts) < stop_after_attempt
           THEN /\ arun' = [arun EXCEPT !.attempts = attempts]
                /\ UNCHANGED <<events, finished>>
           ELSE run_raises(attempts)
    /\ UNCHANGED offAgent

\* _call_llm returns a response; run hands its content to parse_response,
\* outside the retried call: a parsed response ends the run with
\* agent_completed, one that fails every pass of _safe_parse_json raises
call_llm_returns(parsable) ==
    /\ arun.pc = "calling"
    /\ LET attempts == Append(arun.attempts, IF parsable THEN "ok" ELSE "unparsable")
       IN  IF parsable
           THEN /\ events' = publish(events, Ev("agent_completed", arun.agent))
                /\ finished' = Append(finished, [agent |-> arun.agent,
                                                  attempts |-> attempts,
                                                  result |-> "returned"])
                /\ arun' = IdleRun
           ELSE run_raises(attempts)
    /\ UNCHANGED offAgent

\* ------------------------------------------- devil's-advocate response shapes
\* inputs: what the text answered by the devil's advocate's LLM call is
Shapes ==
    { "well_formed",          \* an object with the three fields
      "empty_object",         \* {}: an object with none of them
      "not_json",             \* fails every pass of _safe_parse_json
      "not_object",           \* JSON, but a list
      "summary_not_object",   \* severity_summary is a list
      "findings_not_list" }   \* findings is a number

\* _safe_parse_json: the last json.loads raises on text that is not JSON
parse_response(shape) ==
    IF shape = "not_json" THEN "JSONDecodeError" ELSE "parsed"

\* DevilsAdvocateAgent._generate_summary: parsed_output.get(...) and
\* summary.get(...) need objects
generate_summary(shape) ==
    IF shape \in {"not_object", "summary_not_object"} THEN "AttributeError"
    ELSE "summary"

\* devils_advocate_review_node after run returned: findings[:5]
top_findings(shape) ==
    IF shape = "findings_not_list" THEN "TypeError" ELSE "findings"

\* what the .get(...) defaults make of the parsed object
parsed_review(shape, review) ==
    IF shape = "empty_object"
    THEN [critical |-> 0, recommendation |-> "revise_recommended", nfindings |-> 0]
    ELSE review

\* BaseAgent.run, devils_advocate_review_node and the conditional edge after
\* it, for one response: the exception that ends the workflow, or the routing
\* decision.  review_findings is json.dumps of the parsed output, so the
\* json.loads of should_continue_debate gives the parsed output back.
review_outcome(shape, review, state) ==
    IF parse_response(shape) # "parsed" THEN parse_response(shape)
    ELSE IF generate_summary(shape) # "summary" THEN generate_summary(shape)
    ELSE IF top_findings(shape) # "findings" THEN top_findings(shape)
    ELSE should_continue_debate(
            [state EXCEPT !.review_findings = Some(parsed_review(shape, review))])

\* one response of the devil's advocate reviewed and routed, in round 1 of a
\* debate of max_rounds rounds
review_and_route(shape, review, max_rounds) ==
    /\ Len(routed) < MaxReviews
    /\ routed' = Append(routed,
          [ shape |-> shape,
            capped |-> max_rounds <= 1,
            outcome |-> review_outcome(shape, review,
                            [create_initial_state(max_rounds, 0)
                                EXCEPT !.debate_round = 1]) ])
    /\ UNCHANGED offRoute

\* ------------------------------------------------------------- recency list
\* the requests calling SessionManager.create at the same time
Creators == {"c1", "c2"}

\* list_sessions: limit: int = Query(default=20, ge=1, le=100)
Limits == {1, 20, 100}

\* ltrim(recent, 0, 99): the stop index
recent_stop == 99

\* redis LPUSH
lpush(list, id) == <<id>> \o list

\* a trim that keeps one entry more
ltrim_late(list, start, stop) ==
    SubSeq(list, start + 1, Min(stop + 2, Len(list)))

\* redis LTRIM start stop (0 <= start <= stop): keep the entries at the
\* zero-based indices start..stop
ltrim(list, start, stop) ==
    SubSeq(list, start + 1, Min(stop + 1, Len(list)))

\* redis LRANGE start stop (0 <= start <= stop): the entries at the
\* zero-based indices start..stop that exist
lrange(list, start, stop) ==
    [i \in 1..(Min(stop, Len(list) - 1) - start + 1) |-> list[start + i]]

\* SessionManager.list_recent
list_recent(list, limit) == lrange(list, 0, limit - 1)

\* create: await setex.  Session ids are opaque; the model numbers a session
\* when its id reaches the list, and enters its record in sessions under
\* that number then.
create_setex(c) ==
    /\ creating[c] = "idle"
    /\ Cardinality(sessions) + Cardinality({d \in Creators : creating[d] = "lpush"})
           < MaxCreates
    /\ creating' = [creating EXCEPT ![c] = "lpush"]
    /\ UNCHANGED <<sessions, recent, listed>>
    /\ UNCHANGED offList

\* create: await lpush
create_lpush(c) ==
    /\ creating[c] = "lpush"
    /\ LET id == Cardinality(sessions) + 1
       IN  /\ sessions' = sessions \cup {id}
           /\ recent' = lpush(recent, id)
    /\ creating' = [creating EXCEPT ![c] = "ltrim"]
    /\ UNCHANGED listed
    /\ UNCHANGED offList

\* create: await ltrim
create_ltrim(c) ==
    /\ creating[c] = "ltrim"
    /\ recent' = ltrim(recent, 0, recent_stop)
    /\ creating' = [creating EXCEPT ![c] = "idle"]
    /\ UNCHANGED <<sessions, listed>>
    /\ UNCHANGED offList

\* list_sessions: session_ids = await session_manager.list_recent(limit * 5)
list_recent_call(limit) ==
    /\ listed' = Some([limit |-> limit * 5, ids |-> list_recent(recent, limit * 5)])
    /\ UNCHANGED <<sessions, recent, creating>>
    /\ UNCHANGED offList

\* ----------------------------------------------------------- stored records
\* the session ids the calls are made on
Ids == {"s1", "s2"}

IdleStoreCall == [op |-> "none", id |-> "none", pc |-> "idle", current |-> None,
                  updates |-> None]

\* inputs: the operations that go through update, each with its patch
\* (update as cancel_session calls it; update_status as the background task
\* does; store_output with the state returned by a failed workflow)
Patches ==
    { [op |-> "update",        updates |-> [status |-> "cancelled"]],
      [op |-> "update_status", updates |-> [status |-> "error"]],
      [op |-> "store_output",  updates |-> [status |-> "error", messages |-> 0]] }

\* a write that keeps the time to live the key already had
setex_keepttl(old, t, ttl) == IF old = None THEN Some(t + ttl) ELSE old

\* redis.setex(key, ttl, value) at time t: the key expires ttl seconds later
setex(old, t, ttl) == Some(t + ttl)

StoreTickSeconds == SESSION_TTL \div 2

\* an update that takes a missing record for an empty one
found_or_new(current) == TRUE

\* update, add_message: if current is None: raise ValueError
found(current) == current # None

\* a call ends
returns(op, id, result) ==
    /\ sresult' = Some([op |-> op, id |-> id, result |-> result])
    /\ scall' = IdleStoreCall

\* create(id, state): the record and its entry in the recency list
create_record(id) ==
    /\ \A i \in 1..Len(recent) : recent[i] # id
    /\ store' = [store EXCEPT ![id] = Some([status |-> "initializing", messages |-> 0])]
    /\ deadline' = [deadline EXCEPT ![id] = setex(@, wall, SESSION_TTL)]
    /\ recent' = lpush_ltrim(recent, id)
    /\ UNCHANGED <<scall, sresult, wall>>
    /\ UNCHANGED offStore

\* the key is evicted or removed, delete(id): the key is gone, the recency
\* list keeps the id
expire(id) ==
    /\ store[id] # None
    /\ store' = [store EXCEPT ![id] = None]
    /\ deadline' = [deadline EXCEPT ![id] = None]
    /\ UNCHANGED <<scall, sresult, recent, wall>>
    /\ UNCHANGED offStore

\* the backing store's clock moves on: the keys whose time to live has run
\* out are gone
store_tick ==
    LET t == wall + StoreTickSeconds
        gone(id) == deadline[id] # None /\ Head(deadline[id]) <= t
    IN  /\ wall < MaxStoreTicks * StoreTickSeconds
        /\ wall' = t
        /\ store' = [id \in Ids |-> IF gone(id) THEN None ELSE store[id]]
        /\ deadline' = [id \in Ids |-> IF gone(id) THEN None ELSE deadline[id]]
        /\ UNCHANGED <<scall, sresult, recent>>
        /\ UNCHANGED offStore

\* update (also under update_status and store_output):
\* current = await self.get(session_id); raise ValueError if it is None
update_call_get(op, id, updates) ==
    /\ scall.pc = "idle"
    /\ IF found(store[id])
       THEN /\ scall' = [op |-> op, id |-> id, pc |-> "set", current |-> store[id],
                         updates |-> Some(updates)]
            /\ UNCHANGED sresult
       ELSE returns(op, id, "ValueError")
    /\ UNCHANGED <<store, recent, deadline, wall>>
    /\ UNCHANGED offStore

\* add_message: current = await self.get(session_id); raise ValueError if it
\* is None; append the message to the messages read; then call update
add_message_get(id) ==
    /\ scall.pc = "idle"
    /\ IF found(store[id])
       THEN /\ Head(store[id]).messages < MaxMessages
            /\ scall' = [op |-> "add_message", id |-> id, pc |-> "get", current |-> None,
                         updates |-> Some([messages |-> Head(store[id]).messages + 1])]
            /\ UNCHANGED sresult
       ELSE returns("add_message", id, "ValueError")
    /\ UNCHANGED <<store, recent, deadline, wall>>
    /\ UNCHANGED offStore

\* add_message -> update: current = await self.get(session_id)
add_message_update_get ==
    /\ scall.pc = "get"
    /\ IF found(store[scall.id])
       THEN /\ scall' = [scall EXCEPT !.pc = "set", !.current = store[scall.id]]
            /\ UNCHANGED sresult
       ELSE returns(scall.op, scall.id, "ValueError")
    /\ UNCHANGED <<store, recent, deadline, wall>>
    /\ UNCHANGED offStore

\* update: current.update(updates); await setex(key, SESSION_TTL, ...)
update_call_set ==
    /\ scall.pc = "set"
    /\ store' = [store EXCEPT ![scall.id] =
                    Some(merge(IF scall.current = None
                               THEN [status |-> "none", messages |-> 0]
                               ELSE Head(scall.current),
                               Head(scall.updates)))]
    /\ deadline' = [deadline EXCEPT ![scall.id] = setex(@, wall, SESSION_TTL)]
    /\ returns(scall.op, scall.id, "returned")
    /\ UNCHANGED <<recent, wall>>
    /\ UNCHANGED offStore

\* ------------------------------------------------------------ specification
Init ==
    /\ record = None
    /\ events = <<>>
    /\ wfpc = "none"
    /\ node = "retrieve_context"
    /\ gs = create_initial_state(MinDebateRounds, 0)
    /\ final = None
    /\ wsnap = None
    /\ trace = <<>>
    /\ verdicts = <<>>
    /\ reviews = <<>>
    /\ cpc = "idle"
    /\ csnap = None
    /\ cresp = 0
    /\ observed = "none"
    /\ now = 1
    /\ listeners = {}
    /\ pub = [p \in Tasks |-> IdleCall]
    /\ npub = [p \in Tasks |-> 0]
    /\ calls = <<>>
    /\ conn = [o \in Observers |-> NoConn]
    /\ snapshot = None
    /\ buckets = [k \in Keys |-> None]
    /\ clock = 0
    /\ grants = [k \in Keys |-> <<>>]
    /\ ncalls = 0
    /\ response = None
    /\ sessions = {}
    /\ recent = <<>>
    /\ tasks = {}
    /\ all_errors = <<>>
    /\ built = None
    /\ vpos = 1
    /\ ran = <<>>
    /\ arun = IdleRun
    /\ finished = <<>>
    /\ routed = <<>>
    /\ creating = [c \in Creators |-> "idle"]
    /\ listed = None
    /\ store = [id \in Ids |-> None]
    /\ scall = IdleStoreCall
    /\ sresult = None
    /\ deadline = [id \in Ids |-> None]
    /\ wall = 0
    /\ inbox = <<>>

Next ==
    \/ \E m \in MinDebateRounds..MaxDebateRounds : CreateSession(m)
    \/ retrieve_context_node
    \/ architect_design_node
    \/ validator_node
    \/ architect_revise_from_validation_node
    \/ devils_advocate_review_node
    \/ architect_revise_node
    \/ cost_analysis_node
    \/ workflow_failed
    \/ store_output_get
    \/ store_output_set
    \/ store_output_fault
    \/ update_status_get
    \/ update_status_set
    \/ update_status_fault
    \/ cancel_check
    \/ cancel_update_get
    \/ cancel_update_set
    \/ cancel_publish
    \/ get_session_status

Spec == Init /\ [][Next]_vars

\* one session's event bus with observers coming and going while the
\* workflow task and a cancel request publish
BusNext ==
    \/ workflow_publish
    \/ cancel_session_publish
    \/ \E p \in Tasks : publish_next(p)
    \/ \E o \in Observers : ws_connect(o)
    \/ \E o \in Observers : client_disconnect(o)
    \/ \E o \in Observers : session_websocket_open(o)
    \/ \E o \in Observers : session_websocket_close(o)

BusSpec == Init /\ [][BusNext]_vars

\* observers that also send messages, while the workflow task publishes
SocketNext ==
    \/ workflow_publish
    \/ publish_next("workflow")
    \/ \E o \in Observers : ws_connect(o)
    \/ \E o \in Observers : client_disconnect(o)
    \/ \E o \in Observers : session_websocket_open(o)
    \/ \E o \in Observers : session_websocket_close(o)
    \/ \E o \in Observers, message \in ClientMessages : session_websocket_receive(o, message)

SocketSpec == Init /\ [][SocketNext]_vars

\* the events of the runs of the two stages that publish findings
StageRuns == Len(SelectSeq(events, LAMBDA e : e.type = "agent_started"))

\* validator_node's events for a report of n errors
validator_publishes(n) ==
    /\ StageRuns < MaxStageRuns
    /\ events' = publish_all(events,
                    <<Ev("agent_started", "validator")>>
                    \o validator_finding_events(n)
                    \o <<Ev("agent_completed", "validator")>>)
    /\ UNCHANGED <<sessVars, extVars>>

\* devils_advocate_review_node's events for a review of n findings
review_publishes(n, recommendation) ==
    /\ StageRuns < MaxStageRuns
    /\ events' = publish_all(events,
                    <<Ev("debate_round_started", "devils_advocate_review")>>
                    \o AgentRunEvents("devils_advocate_review", TRUE)
                    \o review_finding_events(n)
                    \o <<DebateRoundCompletedEvent(recommendation)>>)
    /\ UNCHANGED <<sessVars, extVars>>

FindingsNext ==
    \/ \E n \in 0..MaxStageFindings : validator_publishes(n)
    \/ \E n \in 0..MaxStageFindings, review \in Reviews :
        review_publishes(n, review.recommendation)

FindingsSpec == Init /\ [][FindingsNext]_vars

\* the replay buffer of a session nobody observes, over a long run
HistoryNext ==
    \/ unobserved_publish
    \/ publish_next("workflow")
    \/ get_history_call

HistorySpec == Init /\ [][HistoryNext]_vars

\* ingress: create-session requests from two client addresses over time
IngressNext ==
    \/ \E key \in Keys : create_session(key)
    \/ tick

IngressSpec == Init /\ [][IngressNext]_vars

\* the validation engine building a report from the findings it collected
EngineNext ==
    \/ \E e \in Findings : collect_error(e)
    \/ build_report

EngineSpec == Init /\ [][EngineNext]_vars

\* runs of BaseAgent.run against an adapter that may fail or answer badly
AgentNext ==
    \/ \E a \in Agents : agent_run(a)
    \/ call_llm_raises
    \/ \E parsable \in BOOLEAN : call_llm_returns(parsable)

AgentSpec == Init /\ [][AgentNext]_vars

\* devil's-advocate responses of every shape, reviewed and routed
RouteNext ==
    \E shape \in Shapes, review \in Reviews, max_rounds \in MinDebateRounds..2 :
        review_and_route(shape, review, max_rounds)

RouteSpec == Init /\ [][RouteNext]_vars

\* creates from two callers, and listings, on the session store
ListNext ==
    \/ \E c \in Creators : create_setex(c)
    \/ \E c \in Creators : create_lpush(c)
    \/ \E c \in Creators : create_ltrim(c)
    \/ \E limit \in Limits : list_recent_call(limit)

ListSpec == Init /\ [][ListNext]_vars

\* calls on the records of two sessions that are created and expire
StoreNext ==
    \/ \E id \in Ids : create_record(id)
    \/ \E id \in Ids : expire(id)
    \/ store_tick
    \/ \E id \in Ids, p \in Patches : update_call_get(p.op, id, p.updates)
    \/ \E id \in Ids : add_message_get(id)
    \/ add_message_update_get
    \/ update_call_set

StoreSpec == Init /\ [][StoreNext]_vars

\* one run of the graph: the stage the graph is at runs and hands over
GraphRun ==
    \/ retrieve_context_node
    \/ architect_design_node
    \/ validator_node
    \/ architect_revise_from_validation_node
    \/ devils_advocate_review_node
    \/ architect_revise_node
    \/ cost_analysis_node
    \/ workflow_failed

GraphNext ==
    \/ \E m \in MinDebateRounds..MaxDebateRounds : CreateSession(m)
    \/ GraphRun

GraphSpec == Init /\ [][GraphNext]_vars

\* ainvoke awaits one stage after the other, and every adapter call of a
\* stage returns or raises: a run that can take a step takes it
GraphLive == GraphSpec /\ WF_vars(GraphRun)

\* one call of ValidationEngine.validate running the chain of validators
ChainNext ==
    \/ validate_unparsable
    \/ \E errors \in Returned : validator_returns(errors)
    \/ validator_raises
    \/ validate_build

ChainSpec == Init /\ [][ChainNext]_vars

\* validate is one synchronous call: once entered it runs to its return
ChainLive == ChainSpec /\ WF_vars(ChainNext)

TypeOK ==
    /\ wfpc \in {"none", "graph", "finish", "except", "store_get", "store_set",
                "status_get", "status_set", "done", "handled", "crashed"}
    /\ cpc \in {"idle", "update_get", "update_set", "publish"}
    /\ gs.validation_round \in Nat
    /\ gs.debate_round \in Nat

\* ================================================================ properties
GraphNodes ==
    { "retrieve_context", "architect_design", "validator",
      "architect_revise_validation", "devils_advocate_review",
      "architect_revise", "cost_analysis", "generate_docs" }

\* the stages started so far, followed by the one the graph runs next
Started == IF wfpc = "graph" THEN Append(trace, Stage(node, "pending")) ELSE trace

StageNames == [i \in 1..Len(trace) |-> trace[i].node]

\* number of runs of node n among the first i entries of seq
Runs(seq, i, n) == Cardinality({j \in 1..i : seq[j].node = n})

\* run_architecture_workflow has returned
WorkflowReturned == wfpc \in {"store_get", "store_set", "done"}

AdapterFaulted == \E i \in 1..Len(trace) : trace[i].outcome = "adapter_fault"

\* no cancel request has passed the status check of cancel_session
NoCancelAccepted ==
    /\ cpc = "idle"
    /\ \A i \in 1..Len(events) : events[i].type # "session_cancelled"

\* C1: in every reachable state of the workflow (the graph's state, the state
\* each stage started with, the state returned and the stored document)
\* validation_round <= 2 and debate_round <= max_debate_rounds, with
\* max_debate_rounds in 1..5.
BoundedLoops ==
    /\ gs.max_debate_rounds \in 1..5
    /\ gs.validation_round <= 2
    /\ gs.debate_round <= gs.max_debate_rounds
    /\ \A i \in 1..Len(trace) :
        /\ trace[i].validation_round <= 2
        /\ trace[i].debate_round <= gs.max_debate_rounds
    /\ \A st \in {final[i] : i \in 1..Len(final)} \cup {record[i] : i \in 1..Len(record)} :
        /\ st.validation_round <= 2
        /\ st.debate_round <= st.max_debate_rounds

\* both caps met: two validation revisions and five debate rounds of five
BoundedLoopsWitness ==
    /\ gs.validation_round = 2
    /\ gs.max_debate_rounds = 5
    /\ gs.debate_round = 5
    /\ wfpc = "graph" /\ node = "cost_analysis"

\* C2: the stage after a validator run is devils_advocate_review if the
\* report passed, devils_advocate_review if it failed with validation_round
\* >= 2, architect_revise_validation otherwise; the stage after
\* architect_revise_validation is validator.
ValidationRouting ==
    /\ \A i \in 1..Len(trace) : trace[i].node = "validator" => i < Len(Started)
    /\ \A i \in 1..(Len(Started) - 1) :
        LET s   == Started[i]
            nxt == Started[i + 1].node
        IN  /\ s.node = "validator" =>
                LET passed == verdicts[Runs(Started, i, "validator")]
                IN  nxt = IF passed THEN "devils_advocate_review"
                          ELSE IF s.validation_round >= 2 THEN "devils_advocate_review"
                          ELSE "architect_revise_validation"
            /\ s.node = "architect_revise_validation" => nxt = "validator"

\* a failed third validator run has just been routed (force-proceed)
ValidationRoutingWitness ==
    /\ Len(verdicts) = 3 /\ ~verdicts[3]
    /\ wfpc = "graph" /\ node = "devils_advocate_review"
    /\ trace[Len(trace)].node = "validator"

\* C3: the stage after a devil's-advocate review is cost_analysis if
\* debate_round >= max_debate_rounds, or the review reports zero criticals,
\* or its proceed_recommendation is "proceed"; otherwise architect_revise,
\* and the stage after architect_revise is devils_advocate_review.
DebateRouting ==
    \A i \in 1..(Len(Started) - 1) :
        LET s   == Started[i]
            nxt == Started[i + 1].node
        IN  /\ s.node = "devils_advocate_review" =>
                LET review == reviews[Runs(Started, i, "devils_advocate_review")]
                IN  nxt = IF \/ s.debate_round >= gs.max_debate_rounds
                             \/ review.critical = 0
                             \/ review.recommendation = "proceed"
                          THEN "cost_analysis"
                          ELSE "architect_revise"
            /\ s.node = "architect_revise" => nxt = "devils_advocate_review"

\* a first review asked for a revision, the second one too and was cut off
\* by the cap of two rounds
DebateRoutingWitness ==
    /\ gs.max_debate_rounds = 2
    /\ Len(reviews) = 2
    /\ reviews[2].critical = 1 /\ reviews[2].recommendation # "proceed"
    /\ wfpc = "graph" /\ node = "cost_analysis"

\* C4: when the first validator run passes and the first review reports zero
\* criticals with proceed_recommendation = proceed, the stages run in the
\* order retrieve_context, architect_design, validator,
\* devils_advocate_review, cost_analysis, generate_docs, each to its end, and
\* the returned state has debate_round = 1 and validation_round = 0.
HappyPathOrder ==
    ( /\ WorkflowReturned
      /\ Len(verdicts) >= 1 /\ verdicts[1]
      /\ Len(reviews) >= 1
      /\ reviews[1].critical = 0 /\ reviews[1].recommendation = "proceed" )
    => /\ StageNames = << "retrieve_context", "architect_design", "validator",
                          "devils_advocate_review", "cost_analysis", "generate_docs" >>
       /\ \A i \in 1..Len(trace) : trace[i].outcome = "returned"
       /\ Head(final).debate_round = 1
       /\ Head(final).validation_round = 0

\* C5: the validator runs at most three times; when its first two runs fail,
\* each is followed by one architect_revise_validation after which
\* validation_round is one higher, and the stage after the third run is
\* devils_advocate_review with validation_round = 2.
ForcedProceed ==
    /\ Runs(Started, Len(Started), "validator") <= 3
    /\ (Len(verdicts) >= 2 /\ ~verdicts[1] /\ ~verdicts[2]) =>
        \A i \in 1..(Len(Started) - 1) :
            Started[i].node = "validator" =>
                LET k == Runs(Started, i, "validator")
                IN  /\ k \in {1, 2} =>
                        /\ Started[i + 1].node = "architect_revise_validation"
                        /\ i + 2 <= Len(Started) =>
                            /\ Started[i + 2].node = "validator"
                            /\ Started[i + 2].validation_round = Started[i].validation_round + 1
                    /\ k = 3 =>
                        /\ Started[i + 1].node = "devils_advocate_review"
                        /\ Started[i + 1].validation_round = 2

\* three failed validator runs, and the review that followed has run
ForcedProceedWitness ==
    /\ verdicts = <<FALSE, FALSE, FALSE>>
    /\ \E i \in 1..Len(trace) :
        /\ trace[i].node = "devils_advocate_review"
        /\ trace[i].validation_round = 2

\* C6: a session in which no adapter call failed ends with cost_analysis and
\* generate_docs run to their end and status complete.
FaultFreeSessionCompletes ==
    (wfpc = "done" /\ ~AdapterFaulted)
    => /\ \E i \in 1..Len(trace) : trace[i].node = "cost_analysis" /\ trace[i].outcome = "returned"
       /\ \E i \in 1..Len(trace) : trace[i].node = "generate_docs" /\ trace[i].outcome = "returned"
       /\ Head(final).status = "complete"

\* the events published by the workflow task, in order
WorkflowEvents == SelectSeq(events, LAMBDA e : e.origin # "cancel_session")

CancelStopsWorkflow ==
    \A i \in 1..Len(events) :
        events[i].type = "session_cancelled" =>
            Cardinality({events[j].origin : j \in (i + 1)..Len(events)} \cap GraphNodes) <= 1

\* C9: a cancel request answers 404 for an absent session and 409 for a
\* terminal one, changing neither the document nor the events; otherwise
\* its update writes status cancelled with completed_at stamped, and it
\* publishes exactly one session_cancelled event and answers 200.
CancelStep ==
    /\ (cpc = "idle" /\ <<cpc, cresp>>' # <<cpc, cresp>>) =>
        IF record = None
        THEN cresp' = 404 /\ cpc' = "idle" /\ record' = record /\ events' = events
        ELSE IF Head(record).status \in TerminalStatuses
        THEN cresp' = 409 /\ cpc' = "idle" /\ record' = record /\ events' = events
        ELSE cpc' = "update_get" /\ record' = record /\ events' = events
    /\ (cpc = "update_get" /\ cpc' # cpc) => (cpc' = "update_set" /\ record' = record /\ events' = events)
    /\ (cpc = "update_set" /\ cpc' # cpc) =>
        /\ cpc' = "publish"
        /\ record' # None
        /\ Head(record').status = "cancelled"
        /\ Head(record').completed_at = Some(now)
        /\ events' = events
    /\ (cpc = "publish" /\ cpc' # cpc) =>
        /\ cpc' = "idle" /\ cresp' = 200
        /\ Len(events') = Len(events) + 1
        /\ SubSeq(events', 1, Len(events)) = events
        /\ events'[Len(events')].type = "session_cancelled"
        /\ record' = record
    /\ (cpc = "idle" /\ cpc' = "idle") =>
        Len(SelectSeq(events', LAMBDA e : e.type = "session_cancelled"))
            = Len(SelectSeq(events, LAMBDA e : e.type = "session_cancelled"))

CancelContract == [][CancelStep]_vars

\* one request was accepted and carried out, the next one was refused
CancelContractWitness ==
    /\ cpc = "idle" /\ cresp = 409
    /\ \E i \in 1..Len(events) : events[i].type = "session_cancelled"
    /\ Head(record).status = "cancelled"

\* C10: once store_output has completed, the stored document holds the
\* outcome the workflow task wrote (no other writer, no update lost).
NoLostUpdate ==
    wfpc = "done" =>
        /\ Head(record).status = Head(final).status
        /\ Head(record).completed_at = Head(final).completed_at

\* ------------------------------------------------------ event bus properties
RECURSIVE Flatten(_)
Flatten(frames) ==
    IF frames = <<>> THEN <<>> ELSE Head(frames).events \o Flatten(Tail(frames))

\* the events an observer's connection was handed: those of its
\* event_history frame and those streamed, in the order of the frames
Received(o) == Flatten(conn[o].frames)

\* the events streamed live on an observer's connection
Streamed(o) == Flatten(SelectSeq(conn[o].frames, LAMBDA f : f.type = "event"))

IsPrefix(s, t) == Len(s) <= Len(t) /\ SubSeq(t, 1, Len(s)) = s

\* position of an event in the replay buffer (the publication order)
Position(e) == CHOOSE i \in 1..Len(events) : events[i] = e

\* C11: on every observer connection the events of the event_history frame
\* followed by the events streamed are, at every moment, a prefix of the
\* session's publication sequence (nothing missing, duplicated or
\* reordered), and the whole of it whenever the client is connected and no
\* publish is in flight.
ReplayEquivalence ==
    \A o \in Observers :
        /\ IsPrefix(Received(o), events)
        /\ ( /\ conn[o].pc = "open" /\ conn[o].alive
             /\ \A p \in Tasks : pub[p].pc = "idle" )
           => Received(o) = events

\* C12: every listener is handed the session's events in the order of the
\* replay buffer, also while the workflow task and a cancel request publish
\* concurrently.
ListenerOrder ==
    \A o \in Observers :
        \A i, j \in 1..Len(Streamed(o)) :
            i < j => Position(Streamed(o)[i]) < Position(Streamed(o)[j])

\* C13: no publish call fails, and none ends without having visited every
\* listener that was subscribed when it began, whatever subscribes,
\* unsubscribes or publishes while it is suspended in a delivery.
PublishIsAtomic ==
    \A i \in 1..Len(calls) :
        /\ calls[i].outcome = "returned"
        /\ calls[i].began \subseteq calls[i].visited

\* C14: a publish call in which a listener raised does not raise itself,
\* has delivered the event to every other listener subscribed, and the
\* failing listener is out of the listener set from then on.
ListenerFaultIsolated ==
    \A i \in 1..Len(calls) :
        calls[i].dead # {} =>
            /\ calls[i].outcome = "returned"
            /\ calls[i].began \ calls[i].dead \subseteq calls[i].visited
            /\ calls[i].dead \cap listeners = {}

\* the buffer after n publishes of a long run: its last min(n, 100) events
LastOf(n) == [i \in 1..Min(n, 100) |-> Numbered(n - Min(n, 100) + i)]

\* C15: after n publishes the replay buffer holds exactly the last
\* min(n, 100) published events in publication order, and a list returned
\* by get_history stays what the buffer was when it was returned.
ReplayBufferContract ==
    /\ events = LastOf(npub["workflow"])
    /\ snapshot # None => Head(snapshot).list.value = LastOf(Head(snapshot).at)

\* a list taken when the buffer was full, and two evicting publishes since
ReplayBufferWitness ==
    /\ snapshot # None
    /\ Head(snapshot).at = 100
    /\ npub["workflow"] = 102
    /\ pub["workflow"].pc = "idle"

\* C16: a connection whose handler has reached its receive loop was sent
\* exactly one event_history frame, as its first frame.
HistoryFrameFirst ==
    \A o \in Observers :
        conn[o].pc = "open" =>
            /\ Len(SelectSeq(conn[o].frames, LAMBDA f : f.type = "event_history")) = 1
            /\ Head(conn[o].frames).type = "event_history"

\* ---------------------------------------------------------- ingress properties
\* C17: for every key, at most max_requests (10) of the allow calls made
\* within any window of 3600 seconds returned true.
SlidingWindowAdmission ==
    \A key \in Keys :
        \A i \in 1..Len(grants[key]) :
            Cardinality({ j \in i..Len(grants[key]) :
                            grants[key][j] < grants[key][i] + 3600 }) <= 10

\* C18: a create-session request the limiter denied was answered 429 with
\* the remaining count and the retry_after seconds, and created no session.
DeniedIsAnswered429 ==
    (response # None /\ ~Head(response).allowed) =>
        /\ Head(response).status = 429
        /\ Head(response).remaining # None
        /\ Head(response).retry_after_seconds # None
        /\ Head(response).session = None

\* C19: a session record, a recency-list entry or a background task comes
\* into being only in a request for which allow_request returned true; a
\* request for which it returned false, or in which the limiter raised, is
\* answered with an error and creates none of them.
FailClosedStep ==
    /\ (sessions' # sessions \/ recent' # recent \/ tasks' # tasks) =>
        /\ ncalls' = ncalls + 1
        /\ Head(response').allowed
    /\ (ncalls' # ncalls /\ ~Head(response').allowed) =>
        /\ sessions' = sessions /\ recent' = recent /\ tasks' = tasks
        /\ Head(response').status >= 400
        /\ Head(response').session = None

FailsClosed == [][FailClosedStep]_vars

\* an address that used up its ten tokens was refused, and the ten sessions
\* it was granted are all there is
FailsClosedWitness ==
    /\ response # None
    /\ ~Head(response).allowed
    /\ Head(response).status = 500
    /\ Len(grants[Head(response).key]) = 10
    /\ Cardinality(sessions) = 10 /\ Len(recent) = 10 /\ tasks = sessions

\* C40: for every key the token count stays within 0..max_tokens; an
\* admitted call leaves one token less than the bucket held after its
\* refill, a denied call leaves that key's bucket as it was, and no call
\* changes the bucket of another key.
TokensInRange ==
    \A k \in Keys : buckets[k] # None => Head(buckets[k]).tokens \in 0..10

BucketStep ==
    /\ ncalls' = ncalls => buckets' = buckets
    /\ ncalls' # ncalls =>
          LET k        == Head(response').key
              held     == IF buckets[k] = None THEN 10 ELSE Head(buckets[k]).tokens
              since    == IF buckets[k] = None THEN 0
                          ELSE clock - Head(buckets[k]).last_refill
              refilled == Min(10, held + (since * 10) \div 3600)
          IN  /\ \A other \in Keys \ {k} : buckets'[other] = buckets[other]
              /\ Head(response').allowed =>
                    /\ refilled > 0
                    /\ Head(buckets'[k]).tokens = refilled - 1
              /\ ~Head(response').allowed =>
                    /\ buckets[k] # None
                    /\ buckets'[k] = buckets[k]

BucketsIsolated == []TokensInRange /\ [][BucketStep]_vars

\* an address with an empty bucket was refused half a refill interval after
\* its last grant, while the other address holds a bucket of its own
BucketsIsolatedWitness ==
    /\ response # None
    /\ ~Head(response).allowed
    /\ Head(buckets[Head(response).key]).tokens = 0
    /\ clock > Head(buckets[Head(response).key]).last_refill
    /\ \E other \in Keys \ {Head(response).key} :
          buckets[other] # None /\ Head(buckets[other]).tokens = 9

\* ----------------------------------------------------------- report properties
\* C20: a report's passed is true if and only if its count of critical
\* errors, which is the number of critical errors in the list it was built
\* from, is 0 and its score is at least 60.
PassGate ==
    built # None =>
        LET r == Head(built)
        IN  /\ r.summary.critical =
                  Cardinality({i \in 1..Len(all_errors) : all_errors[i].severity = "critical"})
            /\ r.passed <=> (r.summary.critical = 0 /\ r.score >= 60)

\* six findings, none critical, take the score below 60: not passed
PassGateWitness ==
    /\ built # None
    /\ Head(built).summary.critical = 0
    /\ Head(built).score < 60
    /\ ~Head(built).passed

\* one error of every category in every severity: the errors a validator may add
AnyError ==
    [ code : { "SPOF_DATABASE", "CAP_NO_AUTOSCALING", "CONSIST_MISSING_STRATEGY",
               "MISSING_AUTH", "MISSING_LOGGING" },
      severity : { Severities[i] : i \in 1..Len(Severities) } ]

\* the categories of a breakdown
Categories == DOMAIN ScoreBreakdown

\* C21: adding any error to a list never increases the score of the report
\* built from it; adding a critical error strictly decreases the category of
\* its code unless that category was already 0; every category stays within
\* 0 and its cap and the score within 0 and 100.
ScoringMonotone ==
    LET before == build(all_errors)
    IN  /\ before.score \in 0..100
        /\ \A c \in Categories : before.score_breakdown[c] \in 0..ScoreBreakdown[c]
        /\ \A e \in AnyError :
              LET after    == build(Append(all_errors, e))
                  category == ERROR_CATEGORY_MAP(e.code)
              IN  /\ after.score <= before.score
                  /\ after.score \in 0..100
                  /\ \A c \in Categories :
                         after.score_breakdown[c] \in 0..ScoreBreakdown[c]
                  /\ e.severity = "critical" =>
                         \/ after.score_breakdown[category] < before.score_breakdown[category]
                         \/ before.score_breakdown[category] = 0
                  /\ before.score_breakdown[category] = 0 =>
                         after.score_breakdown[category] = 0

\* a report built from a list whose critical errors took reliability to 0,
\* where one more critical reliability error takes nothing more off
ScoringMonotoneWitness ==
    /\ built # None
    /\ Head(built).score_breakdown.reliability = 0
    /\ Head(built).score_breakdown.scalability < ScoreBreakdown.scalability
    /\ \E i \in 1..Len(all_errors) : all_errors[i].severity = "critical"
    /\ Head(built).score = total(Head(built).score_breakdown)

\* ---------------------------------------------------------- session properties
\* C24: over the whole life of a session, including the failure path,
\* messages is append-only: the messages of the state the workflow returns,
\* and of the record finally stored, have the messages of the graph's state
\* as a prefix.
MessagesAppendOnly ==
    /\ final # None => IsPrefix(gs.messages, Head(final).messages)
    /\ (wfpc = "done" /\ record # None) => IsPrefix(gs.messages, Head(record).messages)

\* C25: every way a session reaches the terminal status error (an adapter
\* fault, an exception in a stage, a backing-store fault while storing the
\* outcome) is accompanied by a final error event carrying a message and a
\* recoverable flag: the last event its workflow published is such an event.
ErrorIsAnnounced ==
    (record # None /\ Head(record).status = "error") =>
        \E i \in 1..Len(events) :
            /\ events[i].type = "error"
            /\ {"message", "recoverable"} \subseteq DOMAIN events[i]
            /\ \A j \in (i + 1)..Len(events) : events[j].origin = "cancel_session"

\* the store faulted under store_output and update_status set the status: the
\* record is in error without store_output's completed_at stamp
ErrorIsAnnouncedWitness ==
    /\ wfpc = "handled"
    /\ record # None
    /\ Head(record).status = "error"
    /\ Head(record).completed_at = None
    /\ events[Len(events)].type = "error"

\* C28: every event published, hence every event in the replay buffer,
\* carries a type and a timestamp, whichever component published it.
EveryEventStamped ==
    \A i \in 1..Len(events) :
        /\ "type" \in DOMAIN events[i]
        /\ events[i].timestamp

\* ------------------------------------------------------------- store properties
\* while no create call is in progress: at most 100 ids, the most recently
\* created ones, newest first
RecencyListSettled ==
    (\A c \in Creators : creating[c] = "idle") =>
        /\ Len(recent) <= 100
        /\ Len(recent) = Min(100, Cardinality(sessions))
        /\ \A i \in 1..Len(recent) : recent[i] = Cardinality(sessions) - i + 1

\* an answer of list_recent: the first min(limit, length) ids of the list, in
\* the order of the list
ListRecentStep ==
    listed' # listed =>
        LET answer == Head(listed')
            n      == IF answer.limit < Len(recent) THEN answer.limit ELSE Len(recent)
        IN  /\ Len(answer.ids) = n
            /\ \A i \in 1..n : answer.ids[i] = recent[i]

\* C29: whenever no create call is in progress, the recency list holds at
\* most 100 session ids, the most recently created, newest first;
\* list_recent(limit) returns the first min(limit, length) of them in that
\* order.
RecencyList == []RecencyListSettled /\ [][ListRecentStep]_vars

\* more than 100 sessions were created, the list is full, and a listing of
\* up to 500 ids answered the 100 there are
RecencyListWitness ==
    /\ \A c \in Creators : creating[c] = "idle"
    /\ Cardinality(sessions) > 100
    /\ Len(recent) = 100
    /\ listed # None
    /\ Head(listed).limit = 500
    /\ Head(listed).ids = recent

\* a call that read an absent record: the step that ends it with ValueError
\* leaves every record and the recency list as they were; no call goes on
\* to its write after reading an absent record; a write is made only with
\* the record that was read
AbsentUpdateStep ==
    /\ (sresult' # sresult /\ Head(sresult').result = "ValueError") =>
          /\ store[Head(sresult').id] = None
          /\ store' = store
          /\ recent' = recent
          /\ scall'.pc = "idle"
    /\ (scall' # scall /\ scall.pc \in {"idle", "get"} /\ scall'.pc \in {"get", "set"}) =>
          store[scall'.id] # None
    /\ (scall' # scall /\ scall.pc \in {"idle", "get"} /\ scall'.pc = "idle") =>
          /\ store[Head(sresult').id] = None
          /\ Head(sresult').result = "ValueError"
    /\ scall'.pc = "set" => scall'.current # None

\* C30: update(id, patch) on an absent or expired id fails with an error and
\* writes nothing: it does not create the record and leaves the recency list
\* and every other record unchanged; update_status, add_message and
\* store_output fail the same way.
AbsentUpdateFails == [][AbsentUpdateStep]_vars

\* update was called on a session that had expired: it raised, the record is
\* still absent, the other session's record and the list are in place
AbsentUpdateFailsWitness ==
    /\ sresult # None
    /\ Head(sresult).op = "update"
    /\ Head(sresult).result = "ValueError"
    /\ store[Head(sresult).id] = None
    /\ \E i \in 1..Len(recent) : recent[i] = Head(sresult).id
    /\ \E id \in Ids : store[id] # None
    /\ Len(recent) = Cardinality(Ids)

\* C32: the devil's advocate only sees validated designs: whenever the graph
\* is about to run devils_advocate_review, the validator's latest report on
\* the design passed.
ReviewSeesValidatedDesign ==
    AtNode("devils_advocate_review") => gs.validation_passed = Some(TRUE)

\* C39: every successful write of a session record (create, and the setex
\* of update under update, update_status, add_message and store_output)
\* re-arms its time to live to the full 24 h: a record is there until 24 h
\* after its last write, at that moment it expires, and from then on a get
\* finds nothing.
Written(id) ==
    /\ store'[id] # None
    /\ \/ store[id] = None
       \/ (scall.pc = "set" /\ scall.id = id /\ scall'.pc = "idle")

ArmedRecords ==
    \A id \in Ids :
        /\ store[id] # None <=> deadline[id] # None
        /\ store[id] # None =>
              /\ wall < Head(deadline[id])
              /\ Head(deadline[id]) <= wall + 86400

TtlStep ==
    \A id \in Ids :
        /\ Written(id) => deadline'[id] = Some(wall + 86400)
        /\ (store[id] # None /\ ~Written(id) /\ store'[id] # None) =>
              deadline'[id] = deadline[id]
        /\ (store[id] # None /\ wall' # wall) =>
              (store'[id] = None <=> wall' >= Head(deadline[id]))

TtlRearmed == []ArmedRecords /\ [][TtlStep]_vars

\* a record created at time 0 and updated 12 h later is still there 24 h
\* after its creation, due to expire at 36 h
TtlRearmedWitness ==
    \E id \in Ids :
        /\ wall = 86400
        /\ store[id] # None
        /\ Head(store[id]).status = "cancelled"
        /\ deadline[id] = Some(129600)
        /\ \E other \in Ids : other # id /\ store[other] = None /\ recent = <<id, other>>

\* C38: the workflow task publishes either exactly one session_complete
\* event or a final error event, never both: once run_architecture_workflow
\* has returned it has published exactly one of the two, that event is the
\* last one the workflow task published, and a session_complete comes only
\* after generate_docs returned, with a returned state of status complete.
Announced == SelectSeq(events, LAMBDA e : e.origin = "run_architecture_workflow")

OneFinalEvent ==
    /\ Len(Announced) <= 1
    /\ wfpc \notin {"none", "graph", "finish", "except"} => Len(Announced) = 1
    /\ Len(Announced) = 1 =>
          /\ Announced[1].type \in {"session_complete", "error"}
          /\ WorkflowEvents[Len(WorkflowEvents)] = Announced[1]
          /\ final # None
          /\ Announced[1].type = "error" => Head(final).status = "error"
          /\ Announced[1].type = "session_complete" =>
                /\ Head(final).status = "complete"
                /\ trace[Len(trace)] = [trace[Len(trace)] EXCEPT
                                            !.node = "generate_docs",
                                            !.outcome = "returned"]

\* a run that failed in a stage after publishing that stage's events, and
\* whose outcome was stored
OneFinalEventWitness ==
    /\ wfpc = "done"
    /\ Len(Announced) = 1
    /\ Announced[1].type = "error"
    /\ Len(WorkflowEvents) > 1
    /\ Head(final).status = "error"

\* C37: when an observer's WebSocket handler has ended (the client
\* disconnected, a send failed, or a client message ended it) its listener is
\* not in the session's listener set and no publish delivers to it any more;
\* the step that ends it removes that listener only, the other observers'
\* listeners stay subscribed.
EndedUnsubscribed ==
    \A o \in Observers : conn[o].pc = "closed" => o \notin listeners

HandlerEndStep ==
    \A o \in Observers :
        /\ conn[o].pc = "closed" =>
              /\ conn'[o] = conn[o]
              /\ \A p \in Tasks : o \in pub'[p].visited => o \in pub[p].visited
        /\ (conn[o].pc # "closed" /\ conn'[o].pc = "closed") =>
              listeners' = listeners \ {o}

HandlerEndUnsubscribes == []EndedUnsubscribed /\ [][HandlerEndStep]_vars

\* one observer's handler has ended, and a publish begun after that was
\* delivered to the other observer, which is still subscribed
HandlerEndUnsubscribesWitness ==
    \E o, other \in Observers :
        /\ conn[o].pc = "closed"
        /\ Len(conn[o].frames) > 0
        /\ other \in listeners
        /\ \E i \in 1..Len(calls) :
              /\ calls[i].outcome = "returned"
              /\ o \notin calls[i].began
              /\ other \in calls[i].visited

\* C36: the next_action announced in each debate_round_completed event agrees
\* with the route taken after that review: revise exactly when the next
\* stage is architect_revise, proceed_to_costing exactly when it is
\* cost_analysis.
NextActionAgrees ==
    LET completed == SelectSeq(events, LAMBDA e : e.type = "debate_round_completed")
    IN  \A i \in 1..(Len(Started) - 1) :
            (Started[i].node = "devils_advocate_review" /\ Started[i].outcome = "returned") =>
                LET announced == completed[Runs(Started, i, "devils_advocate_review")].next_action
                    nxt       == Started[i + 1].node
                IN  /\ announced = "revise" <=> nxt = "architect_revise"
                    /\ announced = "proceed_to_costing" <=> nxt = "cost_analysis"

\* C35: every workflow run terminates: a run in the graph reaches the end
\* node or the failure path, and it starts at most 3 validator runs, 2
\* validation revisions, max_debate_rounds reviews of the devil's advocate
\* and max_debate_rounds - 1 debate revisions.
RunEnded == wfpc \in {"finish", "except", "store_get"}

StageCounts ==
    /\ Runs(Started, Len(Started), "validator") <= 3
    /\ Runs(Started, Len(Started), "architect_revise_validation") <= 2
    /\ Runs(Started, Len(Started), "devils_advocate_review") <= gs.max_debate_rounds
    /\ Runs(Started, Len(Started), "architect_revise") <= gs.max_debate_rounds - 1

RunTerminates == []StageCounts /\ ((wfpc = "graph") ~> RunEnded)

\* a run that ended after every loop went to its cap
RunTerminatesWitness ==
    /\ RunEnded
    /\ gs.max_debate_rounds = MaxDebateRounds
    /\ Runs(trace, Len(trace), "validator") = 3
    /\ Runs(trace, Len(trace), "architect_revise_validation") = 2
    /\ Runs(trace, Len(trace), "devils_advocate_review") = MaxDebateRounds
    /\ Runs(trace, Len(trace), "architect_revise") = MaxDebateRounds - 1

\* C34: once the stored status of a session is terminal (complete, error or
\* cancelled) no later write changes it or its completed_at: a session
\* cancelled while its workflow task is running stays cancelled, with the
\* completed_at of the cancellation, after the task stores its outcome.
TerminalStatusStep ==
    (record # None /\ Head(record).status \in TerminalStatuses) =>
        /\ record' # None
        /\ Head(record').status = Head(record).status
        /\ Head(record').completed_at = Head(record).completed_at

TerminalStatusSticky == [][TerminalStatusStep]_vars

\* C33: in one run of a stage, finding_discovered events are published for
\* at most the top five findings of that stage's output: the history never
\* holds six finding_discovered events in a row (the events of one run of a
\* stage are published between its started and completed events).
TopFiveFindings ==
    \A i \in 1..(Len(events) - 5) :
        \E k \in 0..5 : events[i + k].type # "finding_discovered"

\* ----------------------------------------------------------- socket properties
\* C31: any client message the server does not recognise, whether text that
\* is not valid JSON or JSON whose type is none of cancel, force_proceed and
\* ping, is answered with {type: error, message: "Invalid JSON"}, and the
\* connection stays open and subscribed.
UnknownMessageAnswered ==
    Len(inbox) > 0 =>
        LET last == inbox[Len(inbox)]
        IN  last.message \notin {"cancel", "force_proceed", "ping"} =>
              /\ last.reply = Some(Frame("error", <<"Invalid JSON">>))
              /\ conn[last.observer].pc # "closed" \/ ~conn[last.observer].alive

\* ------------------------------------------------------------ agent properties
\* C26: an adapter fault, whether a transport error or a response failing
\* every JSON recovery pass, is retried up to three attempts in total and is
\* fatal only when the attempts are exhausted: a run that raised made three
\* attempts, all of them faults, and no run made more than three.
FaultRetriedUntilExhausted ==
    \A i \in 1..Len(finished) :
        /\ Len(finished[i].attempts) <= 3
        /\ finished[i].result = "raised" =>
              /\ Len(finished[i].attempts) = 3
              /\ \A k \in 1..3 : finished[i].attempts[k] # "ok"

\* C27: when the devil's advocate's findings are malformed (cannot be parsed
\* into the findings structure), the routing decision after the review is
\* proceed: neither the revise edge nor a failure of the workflow.
MalformedFindingsProceed ==
    \A i \in 1..Len(routed) :
        routed[i].shape # "well_formed" => routed[i].outcome = "proceed"

\* ------------------------------------------------------------ chain properties
\* what the validators run so far should have contributed, in order: one
\* medium schema finding for a run that raised, its findings for one that
\* returned
RECURSIVE Contributed(_)
Contributed(runs) ==
    IF runs = <<>> THEN <<>>
    ELSE (IF Head(runs).raised
          THEN << [code |-> "SCHEMA_INVALID_TYPE", severity |-> "medium"] >>
          ELSE Head(runs).errors)
         \o Contributed(Tail(runs))

\* once a validator has raised: the findings collected are what every
\* validator run so far gave, the crash counted as one medium schema finding;
\* the validators ran in the order of the chain; a report exists only after
\* the last one, and is the one built from everything collected
ValidatorFaultRecorded ==
    (\E i \in 1..Len(ran) : ran[i].raised) =>
        /\ all_errors = Contributed(ran)
        /\ vpos = Len(ran) + 1
        /\ \A i \in 1..Len(ran) : ran[i].validator = validators[i]
        /\ vpos <= Len(validators) => built = None
        /\ built # None =>
              /\ Len(ran) = Len(validators)
              /\ Head(built) = build(all_errors)

\* C22: if one validator raises, the exception is caught and recorded as one
\* medium-severity schema finding, every later validator still runs and
\* contributes its findings, and a report is still produced.
ValidatorFaultContained ==
    /\ []ValidatorFaultRecorded
    /\ (\E i \in 1..Len(ran) : ran[i].raised)
          ~> (built # None /\ Len(ran) = Len(validators))

\* the first validator raised, a later one returned a finding, and the report
\* built holds both
ValidatorFaultContainedWitness ==
    /\ built # None
    /\ Len(ran) = Len(validators)
    /\ ran[1].raised
    /\ \E i \in 2..Len(ran) : ~ran[i].raised /\ ran[i].errors # <<>>
    /\ Head(built).summary.medium >= 1
    /\ Head(built).summary.critical >= 1

====
